---- MODULE Spec2Model ----
(***************************************************************************)
(* Model of codex-py: the streaming agent loop (AgentLoopPy in             *)
(* src/agent/agent_loop.py) and the configuration resolver (load_config in *)
(* src/utils/config.py).  Spec is the agent loop, SpecCalls the agent loop *)
(* with the method of each step noted, SpecConfig the resolver.            *)
(*                                                                         *)
(* Text is modelled as a sequence of words (a Python str is a sequence of  *)
(* characters; the word is the unit here), so that concatenation, "".join, *)
(* f-string formatting and the `in` substring test are computed and not    *)
(* assumed.  The empty text <<>> stands for both "" and None, which the    *)
(* code treats alike (`if content_part:`, `instructions or ...`).          *)
(*                                                                         *)
(* run() is an async generator.  Its positions are the places where it     *)
(* gives up control: awaiting the request ("requesting"), awaiting the     *)
(* next chunk ("streaming"), suspended at `yield content_part`             *)
(* ("yield_content") and at `yield error_message` ("yield_error").  Code   *)
(* between two such places runs without interruption and is one action.    *)
(* cancel() and clear_history() are plain methods that the consumer or     *)
(* another task may call at any of these places; the item sink, which the  *)
(* caller supplies, may call cancel() re-entrantly.  The two sinks return  *)
(* normally (their contract is `-> void`), and the failures drawn for the  *)
(* provider are Exception subclasses.                                      *)
(*                                                                         *)
(* Lines 4-5 of agent_loop.py (`try:` followed by an unindented import)    *)
(* do not parse as Python; the model is of the class defined below them.   *)
(*                                                                         *)
(* The prompt of the n-th run() call and the text of the k-th chunk are    *)
(* fixed by n and k, as in the stubs of the tests, so that every entry and *)
(* every fragment is recognisable in the transcript.  `events` is the log  *)
(* of what the latest run() call did that its caller can observe.          *)
(***************************************************************************)
EXTENDS Naturals, Integers, Sequences, FiniteSets, TLC

VARIABLES
    canceled,                 \* self.canceled
    transcript,               \* self.transcript
    current_stream,           \* self.current_stream: "None" or "stream"
    on_item_callback,         \* whether an item sink was given to __init__
    on_loading,               \* whether a loading sink was given to __init__
    instructions,             \* self.app_config.instructions
    pc,                       \* position of the run() generator
    prompt,                   \* run's argument
    messages_payload,         \* run's local: the list handed to create()
    full_assistant_response,  \* run's local: the accumulator (list of str)
    e,                        \* the exception bound in the except clause
    chunksRead,               \* chunks received from the provider so far
    runCalls,                 \* number of run() calls made so far
    requests,                 \* number of create() calls issued so far
    events,                   \* observable effects of the latest run() call
    outcome,                  \* how the latest run() call ended
    turnsEnded,               \* turns that ended completed/cancelled/failed
    emptyTurns,               \* ... of which the accumulated text was empty
    cleared,                  \* clear_history() was called at least once
    op,                       \* the method whose code ran in the latest step
    environ,                  \* os.environ
    config_json,              \* the file config.json of the config directory
    config_yaml,              \* the file config.yaml of the config directory
    raw_file_config,          \* load_config's local: the mapping it parsed
    app_config,               \* the AppConfig that load_config returned
    load_outcome,             \* how the latest load_config call ended
    config,                   \* the AppConfig object the program holds
    writable,                 \* whether open(path, 'w') succeeds
    call_args,                \* the arguments of the latest call
    call_outcome,             \* how the latest call ended
    oai_client                \* what create_openai_client returned

\* the instance, the run() generator and the record of what they did
loopVars == <<canceled, transcript, current_stream, on_item_callback,
              on_loading, instructions, pc, prompt, messages_payload,
              full_assistant_response, e, chunksRead, runCalls, requests,
              events, outcome, turnsEnded, emptyTurns, cleared>>

\* the environment, the settings files and what load_config made of them
configVars == <<environ, config_json, config_yaml, raw_file_config,
                app_config, load_outcome, config, writable, call_args,
                call_outcome, oai_client>>

vars == <<loopVars, op, configVars>>

(***************************************************************************)
(* Bounds and input sets                                                   *)
(***************************************************************************)
\* run() calls made on the instance
MaxTurns == 2

\* chunks the provider delivers to the instance, over all its streams
MaxChunks == 2

\* the prompt of the n-th run() call ("test prompt 1", "test prompt 2", ...)
PromptOf(n) == <<"prompt", ToString(n)>>

\* the text of the k-th chunk the provider delivers, when it carries text
\* ("Part1 ", "Part2 ", ...)
TextOf(k) == <<"Part" \o ToString(k)>>

InstructionChoices == { <<>>, <<"Be", "terse.">> }

\* the k-th chunk the provider delivers: no choices, one choice whose
\* delta.content is empty, or one choice that carries text
ChunksAt(k) ==
    { [choices |-> <<>>],
      [choices |-> << [content |-> <<>>] >>],
      [choices |-> << [content |-> TextOf(k)] >>] }

\* exception classes of the openai package, and one that is no APIError
ApiErrorClasses ==
    { "RateLimitError", "AuthenticationError", "NotFoundError",
      "APIConnectionError", "APIStatusError", "APIError" }

ErrorClasses == ApiErrorClasses \cup { "Exception" }

ErrorMessages == { <<"Server", "error">> }

StatusCodes == { "500", "503" }

\* an exception: its class, its message (what str(e) gives) and, for a
\* structured status error, response.status_code
Errors ==
    { [cls |-> c, message |-> m, status_code |-> "None"] :
          c \in ErrorClasses \ {"APIStatusError"}, m \in ErrorMessages } \cup
    { [cls |-> "APIStatusError", message |-> m, status_code |-> s] :
          m \in ErrorMessages, s \in StatusCodes }

NoError == [cls |-> "None", message |-> <<>>, status_code |-> "None"]

(***************************************************************************)
(* Text helpers                                                            *)
(***************************************************************************)
RECURSIVE Join(_)
\* "".join(parts)
Join(parts) ==
    IF parts = <<>> THEN <<>> ELSE Head(parts) \o Join(Tail(parts))

\* sub in s
Contains(s, sub) ==
    \E i \in 0..(Len(s) - Len(sub)) :
        \A j \in 1..Len(sub) : s[i + j] = sub[j]

Last(s) == s[Len(s)]

(***************************************************************************)
(* Pieces of run()                                                         *)
(***************************************************************************)
UserEntry(text) == [role |-> "user", content |-> text]

AssistantEntry(text) == [role |-> "assistant", content |-> text]

FallbackInstructions == <<"You", "are", "a", "helpful", "assistant.">>

\* mutant: the instructions are used as they are, empty or not
SystemMessageContentNoFallback(instr) == instr

\* self.app_config.instructions or "You are a helpful assistant."
SystemMessageContent(instr) ==
    IF instr # <<>> THEN instr ELSE FallbackInstructions

\* mutant: only the current user entry follows the system message
BuildMessagesPayloadNoHistory(instr, tr) ==
    << [role |-> "system", content |-> SystemMessageContent(instr)],
       tr[Len(tr)] >>

\* [{"role": "system", ...}] + self.transcript
BuildMessagesPayload(instr, tr) ==
    << [role |-> "system", content |-> SystemMessageContent(instr)] >> \o tr

\* mutant: the `except Exception` clause is missing
ExceptClauseApiOnly(err) ==
    IF err.cls \in ApiErrorClasses THEN "APIError" ELSE "none"

\* which except clause catches err: `except openai.APIError`, from which
\* every error class of the openai package derives, then `except Exception`;
\* "none" when no clause matches and the exception leaves run
ExceptClause(err) ==
    IF err.cls \in ApiErrorClasses THEN "APIError"
    ELSE IF err.cls \in ErrorClasses THEN "Exception"
    ELSE "none"

\* f"OpenAI API Error: {e}" / f"An unexpected error occurred: {e}"
FormatError(err) ==
    IF ExceptClause(err) = "APIError"
    THEN <<"OpenAI", "API", "Error:">> \o err.message
    ELSE <<"An", "unexpected", "error", "occurred:">> \o err.message

\* chunk.choices[0].delta.content when the chunk has a choice, else nothing
ContentPart(chunk) ==
    IF Len(chunk.choices) > 0 THEN chunk.choices[1].content ELSE <<>>

\* mutant: run does not look at the flag on entry
RunIsNoOpNever == FALSE

\* `if self.canceled: return` at the entry of run
RunIsNoOp == canceled

\* mutant: the loop does not look at the flag
BreakOnCancelNever == FALSE

\* `if self.canceled: break` at the top of the loop body
BreakOnCancel == canceled

Ev(call, arg) == [call |-> call, arg |-> arg]

\* the log after `async for chunk in self.current_stream` has bound chunk
Received(evs, chunk) == Append(evs, Ev("chunk", chunk))

\* `if self.on_loading: self.on_loading(True)`
LoadingStarted(evs) ==
    IF on_loading THEN Append(evs, Ev("on_loading", <<"True">>)) ELSE evs

\* mutant: the end of loading is reported after the loop and not in the
\* finally block, so a failed turn does not report it
LoadingEndedOnSuccess(evs) ==
    IF on_loading /\ e = NoError
    THEN Append(evs, Ev("on_loading", <<"False">>)) ELSE evs

\* `if self.on_loading: self.on_loading(False)` of the finally block
LoadingEnded(evs) ==
    IF on_loading THEN Append(evs, Ev("on_loading", <<"False">>)) ELSE evs

\* the arguments of the logged calls to `call`, in order
ArgsOf(evs, call) ==
    LET calls == SelectSeq(evs, LAMBDA ev : ev.call = call)
    IN  [i \in 1..Len(calls) |-> calls[i].arg]

\* the fragments run has yielded
Yielded(evs) == ArgsOf(evs, "yield")

\* the values run has passed to the item sink
SinkItems(evs) == ArgsOf(evs, "on_item")

\* the values run has passed to the loading sink
LoadingCalls(evs) == ArgsOf(evs, "on_loading")

\* what the item sink call leaves in the log: the call and, when the sink
\* calls cancel() from inside, that call
SinkCall(text, sinkCancels) ==
    IF on_item_callback
    THEN <<Ev("on_item", text)>> \o
         (IF sinkCancels THEN <<Ev("cancel", <<>>)>> ELSE <<>>)
    ELSE <<>>

\* mutant: the fragment is yielded before the item sink is called with it
EmitYieldFirst(evs, text, sinkCancels) ==
    /\ full_assistant_response' = Append(full_assistant_response, text)
    /\ events' = evs \o <<Ev("yield", text)>> \o SinkCall(text, sinkCancels)
    /\ canceled' = (canceled \/ sinkCancels)

\* mutant: the fragment is yielded twice
EmitTwice(evs, text, sinkCancels) ==
    /\ full_assistant_response' = Append(full_assistant_response, text)
    /\ events' = evs \o SinkCall(text, sinkCancels)
                     \o <<Ev("yield", text), Ev("yield", text)>>
    /\ canceled' = (canceled \/ sinkCancels)

\* append, item sink, yield: the three statements done with a fragment, the
\* log of the run being evs before them
Emit(evs, text, sinkCancels) ==
    /\ full_assistant_response' = Append(full_assistant_response, text)
    /\ events' = evs \o SinkCall(text, sinkCancels) \o <<Ev("yield", text)>>
    /\ canceled' = (canceled \/ sinkCancels)

\* mutant: the assistant entry is appended even when the text is empty
RecordAssistantAlways(tr, parts) ==
    Append(tr, AssistantEntry(Join(parts)))

\* mutant: the text of a cancelled turn is dropped
RecordAssistantUnlessCanceled(tr, parts) ==
    IF Join(parts) # <<>> /\ ~canceled
    THEN Append(tr, AssistantEntry(Join(parts))) ELSE tr

\* mutant: the assistant entry is put in front of the turn's user entry
RecordAssistantFirst(tr, parts) ==
    IF Join(parts) # <<>> /\ tr # <<>>
    THEN SubSeq(tr, 1, Len(tr) - 1)
             \o <<AssistantEntry(Join(parts)), tr[Len(tr)]>>
    ELSE tr

\* the transcript after the finally block's append
RecordAssistant(tr, parts) ==
    IF Join(parts) # <<>> THEN Append(tr, AssistantEntry(Join(parts))) ELSE tr

\* mutant: the finally block leaves the stream reference as it is
FinallyKeepsStream(how) ==
    /\ events' = LoadingEnded(events)
    /\ transcript' = RecordAssistant(transcript, full_assistant_response)
    /\ pc' = "idle"
    /\ outcome' = how
    /\ turnsEnded' = turnsEnded + 1
    /\ emptyTurns' = IF Join(full_assistant_response) = <<>>
                     THEN emptyTurns + 1 ELSE emptyTurns
    /\ prompt' = <<>>
    /\ messages_payload' = <<>>
    /\ full_assistant_response' = <<>>
    /\ e' = NoError
    /\ UNCHANGED <<canceled, current_stream, on_item_callback, on_loading, instructions,
                   chunksRead, runCalls, requests, cleared>>

\* the finally block, reached with the turn's outcome; the generator ends
\* after it and its locals are gone
Finally(how) ==
    /\ events' = LoadingEnded(events)
    /\ current_stream' = "None"
    /\ transcript' = RecordAssistant(transcript, full_assistant_response)
    /\ pc' = "idle"
    /\ outcome' = how
    /\ turnsEnded' = turnsEnded + 1
    /\ emptyTurns' = IF Join(full_assistant_response) = <<>>
                     THEN emptyTurns + 1 ELSE emptyTurns
    /\ prompt' = <<>>
    /\ messages_payload' = <<>>
    /\ full_assistant_response' = <<>>
    /\ e' = NoError
    /\ UNCHANGED <<canceled, on_item_callback, on_loading, instructions,
                   chunksRead, runCalls, requests, cleared>>

\* the except clauses: format, accumulate, item sink, yield; an exception
\* that no clause catches goes through the finally block to the caller
HandleError(err, sinkCancels) ==
    IF ExceptClause(err) = "none"
    THEN Finally("raised")
    ELSE /\ e' = err
         /\ Emit(events, FormatError(err), sinkCancels)
         /\ pc' = "yield_error"
         /\ UNCHANGED <<transcript, current_stream, on_item_callback,
                        on_loading, instructions, prompt, messages_payload,
                        chunksRead, runCalls, requests, outcome, turnsEnded,
                        emptyTurns, cleared>>

(***************************************************************************)
(* Initial state: the instance as __init__ leaves it                       *)
(***************************************************************************)
InitLoop ==
    /\ canceled = FALSE
    /\ transcript = <<>>
    /\ current_stream = "None"
    /\ on_item_callback \in BOOLEAN
    /\ on_loading \in BOOLEAN
    /\ instructions \in InstructionChoices
    /\ pc = "idle"
    /\ prompt = <<>>
    /\ messages_payload = <<>>
    /\ full_assistant_response = <<>>
    /\ e = NoError
    /\ chunksRead = 0
    /\ runCalls = 0
    /\ requests = 0
    /\ events = <<>>
    /\ outcome = "none"
    /\ turnsEnded = 0
    /\ emptyTurns = 0
    /\ cleared = FALSE
    /\ op = "none"

\* load_config has not been called; nothing is known of its inputs
NoResolver ==
    /\ environ = <<>>
    /\ config_json = [exists |-> FALSE, parses |-> FALSE, value |-> "dict",
                      data |-> <<>>]
    /\ config_yaml = [exists |-> FALSE, parses |-> FALSE, value |-> "dict",
                      data |-> <<>>]
    /\ raw_file_config = <<>>
    /\ app_config = <<>>
    /\ load_outcome = "none"
    /\ config = <<>>
    /\ writable = TRUE
    /\ call_args = <<>>
    /\ call_outcome = "none"
    /\ oai_client = [cls |-> "None", kwargs |-> <<>>, error |-> "None"]

Init ==
    /\ InitLoop
    /\ NoResolver

(***************************************************************************)
(* Actions                                                                 *)
(***************************************************************************)
\* run(p) called and started, up to `await ...create(...)`; with the flag
\* set it returns at once
Run(p) ==
    /\ pc = "idle"
    /\ runCalls < MaxTurns
    /\ runCalls' = runCalls + 1
    /\ IF RunIsNoOp
       THEN /\ events' = <<>>
            /\ outcome' = "noop"
            /\ UNCHANGED <<canceled, transcript, current_stream,
                           on_item_callback, on_loading, instructions, pc,
                           prompt, messages_payload, full_assistant_response,
                           e, chunksRead, requests, turnsEnded, emptyTurns,
                           cleared>>
       ELSE /\ prompt' = p
            /\ transcript' = Append(transcript, UserEntry(p))
            /\ messages_payload' = BuildMessagesPayload(instructions, transcript')
            /\ full_assistant_response' = <<>>
            /\ events' = Append(LoadingStarted(<<>>), Ev("create", <<>>))
            /\ requests' = requests + 1
            /\ outcome' = "running"
            /\ pc' = "requesting"
            /\ UNCHANGED <<canceled, current_stream, on_item_callback,
                           on_loading, instructions, e, chunksRead,
                           turnsEnded, emptyTurns, cleared>>

\* the request returns a stream
CreateReturns ==
    /\ pc = "requesting"
    /\ current_stream' = "stream"
    /\ pc' = "streaming"
    /\ UNCHANGED <<canceled, transcript, on_item_callback, on_loading,
                   instructions, prompt, messages_payload,
                   full_assistant_response, e, chunksRead, runCalls, requests,
                   events, outcome, turnsEnded, emptyTurns, cleared>>

\* the request raises
CreateFails(err, sinkCancels) ==
    /\ pc = "requesting"
    /\ sinkCancels => on_item_callback
    /\ HandleError(err, sinkCancels)

\* the stream delivers a chunk: one pass of the loop body; a chunk that
\* arrives with the flag set ends the loop unread
NextChunk(chunk, sinkCancels) ==
    /\ pc = "streaming"
    /\ chunksRead < MaxChunks
    /\ sinkCancels => (on_item_callback /\ ~canceled /\ ContentPart(chunk) # <<>>)
    /\ IF BreakOnCancel
       THEN Finally("cancelled")
       ELSE /\ chunksRead' = chunksRead + 1
            /\ IF ContentPart(chunk) # <<>>
               THEN /\ Emit(Received(events, chunk), ContentPart(chunk),
                            sinkCancels)
                    /\ pc' = "yield_content"
               ELSE /\ events' = Received(events, chunk)
                    /\ UNCHANGED <<full_assistant_response, canceled, pc>>
            /\ UNCHANGED <<transcript, current_stream, on_item_callback,
                           on_loading, instructions, prompt, messages_payload,
                           e, runCalls, requests, outcome, turnsEnded,
                           emptyTurns, cleared>>

\* the stream is exhausted
StreamEnds ==
    /\ pc = "streaming"
    /\ Finally("completed")

\* the stream raises while the next chunk is awaited
StreamFails(err, sinkCancels) ==
    /\ pc = "streaming"
    /\ sinkCancels => on_item_callback
    /\ HandleError(err, sinkCancels)

\* the consumer asks for the next fragment after a streamed one
Resume ==
    /\ pc = "yield_content"
    /\ pc' = "streaming"
    /\ UNCHANGED <<canceled, transcript, current_stream, on_item_callback,
                   on_loading, instructions, prompt, messages_payload,
                   full_assistant_response, e, chunksRead, runCalls, requests,
                   events, outcome, turnsEnded, emptyTurns, cleared>>

\* mutant: a turn that yielded the error string ends as a completed one
ResumeAfterErrorCompleted ==
    /\ pc = "yield_error"
    /\ Finally("completed")

\* the consumer asks for the next fragment after the error string
ResumeAfterError ==
    /\ pc = "yield_error"
    /\ Finally("failed")

\* mutant: clear_history also resets the cancellation flag
ClearHistoryResetsFlag ==
    /\ transcript' = <<>>
    /\ cleared' = TRUE
    /\ canceled' = FALSE
    /\ UNCHANGED <<current_stream, on_item_callback, on_loading,
                   instructions, pc, prompt, messages_payload,
                   full_assistant_response, e, chunksRead, runCalls, requests,
                   events, outcome, turnsEnded, emptyTurns>>

\* mutant: clear_history keeps the latest entry of the transcript
ClearHistoryKeepsLast ==
    /\ transcript' = IF transcript = <<>> THEN <<>> ELSE <<Last(transcript)>>
    /\ cleared' = TRUE
    /\ UNCHANGED <<canceled, current_stream, on_item_callback, on_loading,
                   instructions, pc, prompt, messages_payload,
                   full_assistant_response, e, chunksRead, runCalls, requests,
                   events, outcome, turnsEnded, emptyTurns>>

\* clear_history()
ClearHistory ==
    /\ transcript' = <<>>
    /\ cleared' = TRUE
    /\ UNCHANGED <<canceled, current_stream, on_item_callback, on_loading,
                   instructions, pc, prompt, messages_payload,
                   full_assistant_response, e, chunksRead, runCalls, requests,
                   events, outcome, turnsEnded, emptyTurns>>

\* mutant: cancel also drops the in-flight stream reference
CancelClosesStream ==
    /\ canceled' = TRUE
    /\ current_stream' = "None"
    /\ events' = IF pc = "idle" \/ canceled THEN events
                 ELSE Append(events, Ev("cancel", <<>>))
    /\ UNCHANGED <<transcript, on_item_callback, on_loading,
                   instructions, pc, prompt, messages_payload,
                   full_assistant_response, e, chunksRead, runCalls, requests,
                   outcome, turnsEnded, emptyTurns, cleared>>

\* cancel(), called by the consumer or another task; the log keeps the call
\* that sets the flag during a run
Cancel ==
    /\ canceled' = TRUE
    /\ events' = IF pc = "idle" \/ canceled THEN events
                 ELSE Append(events, Ev("cancel", <<>>))
    /\ UNCHANGED <<transcript, current_stream, on_item_callback, on_loading,
                   instructions, pc, prompt, messages_payload,
                   full_assistant_response, e, chunksRead, runCalls, requests,
                   outcome, turnsEnded, emptyTurns, cleared>>

\* a step of run(): the call, or the generator going from one of its
\* positions to the next
RunStep ==
    \/ Run(PromptOf(runCalls + 1))
    \/ CreateReturns
    \/ \E err \in Errors, sinkCancels \in BOOLEAN : CreateFails(err, sinkCancels)
    \/ \E chunk \in ChunksAt(chunksRead + 1), sinkCancels \in BOOLEAN :
           NextChunk(chunk, sinkCancels)
    \/ StreamEnds
    \/ \E err \in Errors, sinkCancels \in BOOLEAN : StreamFails(err, sinkCancels)
    \/ Resume
    \/ ResumeAfterError

Next ==
    /\ \/ RunStep
       \/ ClearHistory
       \/ Cancel
    /\ UNCHANGED <<op, configVars>>

Spec == Init /\ [][Next]_vars

\* the provider answers the request: a stream or an exception
RequestAnswered ==
    \/ CreateReturns
    \/ \E err \in Errors, sinkCancels \in BOOLEAN : CreateFails(err, sinkCancels)

\* the provider ends the stream, fails, or delivers a chunk to a loop whose
\* flag is set
StreamStops ==
    \/ StreamEnds
    \/ \E err \in Errors, sinkCancels \in BOOLEAN : StreamFails(err, sinkCancels)
    \/ /\ canceled
       /\ \E chunk \in ChunksAt(chunksRead + 1) : NextChunk(chunk, FALSE)

\* an instance without item sink and without instructions, with or
\* without loading sink
InitLive ==
    /\ Init
    /\ ~on_item_callback
    /\ instructions = <<>>

\* the agent loop with a consumer that keeps iterating the generator and a
\* provider that answers every request and lets every stream stop; nothing
\* is assumed of the calls of run, cancel and clear_history
SpecLive ==
    /\ InitLive
    /\ [][Next]_vars
    /\ WF_vars(Resume /\ UNCHANGED <<op, configVars>>)
    /\ WF_vars(ResumeAfterError /\ UNCHANGED <<op, configVars>>)
    /\ WF_vars(RequestAnswered /\ UNCHANGED <<op, configVars>>)
    /\ SF_vars(StreamStops /\ UNCHANGED <<op, configVars>>)

\* the same steps, with the method of each step noted in op
NextCalls ==
    /\ \/ RunStep /\ op' = "run"
       \/ ClearHistory /\ op' = "clear_history"
       \/ Cancel /\ op' = "cancel"
    /\ UNCHANGED configVars

\* the instance as AgentLoopPy(app_config=config) builds it, without sinks
InitCalls ==
    /\ Init
    /\ ~on_item_callback
    /\ ~on_loading

SpecCalls == InitCalls /\ [][NextCalls]_vars

(***************************************************************************)
(* The configuration resolver (src/utils/config.py) and the provider       *)
(* registry (src/utils/default_providers.py)                               *)
(*                                                                         *)
(* A Python dict is a function whose domain is the set of its keys; a      *)
(* setting is a string, and None is a value of its own, distinct from the  *)
(* empty string.  The environment is a dict of the variables that are set. *)
(***************************************************************************)
None == "None"

\* bool(v) of an Optional[str]
Truthy(v) == v # None /\ v # ""

EmptyDict == <<>>

\* d.get(k, dflt)
Get(d, k, dflt) == IF k \in DOMAIN d THEN d[k] ELSE dflt

\* d[k] = v
Put(d, k, v) == [x \in (DOMAIN d) \cup {k} |-> IF x = k THEN v ELSE d[x]]

\* os.getenv(k)
Getenv(env, k) == Get(env, k, None)

DEFAULT_INSTRUCTIONS ==
    "You are a helpful AI assistant. Please perform the requested file operations."

DEFAULT_MODEL == "gpt-4"

DEFAULT_PROVIDER == "openai"

DEFAULT_APPROVAL_MODE == "auto"

ApprovalModes == { "auto", "manual", "none" }

ProviderInfoFields == { "name", "base_url", "env_key", "api_key" }

\* ProviderInfo(name=..., base_url=..., env_key=...)
ProviderInfo(name, base_url, env_key) ==
    [name |-> name, base_url |-> base_url, env_key |-> env_key,
     api_key |-> None]

\* the registry as the import of default_providers leaves it: the entry of
\* ollama takes its base_url from OLLAMA_BASE_URL when that is set
DEFAULT_PROVIDERS(env) ==
    [openai |-> ProviderInfo("OpenAI", "https://api.openai.com/v1",
                             "OPENAI_API_KEY"),
     azure |-> ProviderInfo("Azure OpenAI", None, "AZURE_OPENAI_API_KEY"),
     ollama |-> ProviderInfo("Ollama",
                             IF Truthy(Getenv(env, "OLLAMA_BASE_URL"))
                             THEN Getenv(env, "OLLAMA_BASE_URL")
                             ELSE "http://localhost:11434",
                             None),
     anthropic |-> ProviderInfo("Anthropic", "https://api.anthropic.com/v1",
                                "ANTHROPIC_API_KEY"),
     google |-> ProviderInfo("Google", None, "GOOGLE_API_KEY"),
     mistral |-> ProviderInfo("Mistral AI", "https://api.mistral.ai/v1",
                              "MISTRAL_API_KEY")]

RegistryIds == { "openai", "azure", "ollama", "anthropic", "google", "mistral" }

\* info.model_dump(exclude_none=True)
ModelDump(info) ==
    [f \in { g \in DOMAIN info : info[g] # None } |-> info[f]]

\* whether ProviderInfo(**provider_data) validates: name is required
ProviderInfoValid(provider_data) ==
    /\ "name" \in DOMAIN provider_data
    /\ provider_data["name"] # None

\* ProviderInfo(**provider_data)
ProviderInfoOf(provider_data) ==
    [f \in ProviderInfoFields |-> Get(provider_data, f, None)]

\* name.upper() of the provider identifiers in use
Upper(name) ==
    CASE name = "openai" -> "OPENAI"
      [] name = "azure" -> "AZURE"
      [] name = "ollama" -> "OLLAMA"
      [] name = "anthropic" -> "ANTHROPIC"
      [] name = "google" -> "GOOGLE"
      [] name = "mistral" -> "MISTRAL"
      [] name = "custom_provider" -> "CUSTOM_PROVIDER"
      [] name = "non_existent_provider" -> "NON_EXISTENT_PROVIDER"

\* f"{name.upper()}_BASE_URL"
BaseUrlVar(name) == Upper(name) \o "_BASE_URL"

\* what _bootstrap_default_config_file writes
BootstrapContent(env) ==
    [model |-> DEFAULT_MODEL,
     provider |-> DEFAULT_PROVIDER,
     approvalMode |-> DEFAULT_APPROVAL_MODE,
     instructions |-> DEFAULT_INSTRUCTIONS,
     providers |-> [p \in RegistryIds |-> ModelDump(DEFAULT_PROVIDERS(env)[p])],
     default_provider |-> DEFAULT_PROVIDER]

\* a settings file: whether it exists, whether its text parses, the type
\* of the value it parses to and, for a dict, the mapping
NoFile ==
    [exists |-> FALSE, parses |-> FALSE, value |-> "dict", data |-> EmptyDict]

File(data) ==
    [exists |-> TRUE, parses |-> TRUE, value |-> "dict", data |-> data]

Unparsable ==
    [exists |-> TRUE, parses |-> FALSE, value |-> "dict", data |-> EmptyDict]

\* an empty YAML file, or the JSON text null: the parser returns None
NullFile ==
    [exists |-> TRUE, parses |-> TRUE, value |-> "None", data |-> EmptyDict]

\* the text [] or a YAML sequence: the parser returns a list
ListFile ==
    [exists |-> TRUE, parses |-> TRUE, value |-> "list", data |-> EmptyDict]

\* _get_config_filepath: the JSON file first, then the YAML file
GetConfigFilepath(json, yaml) ==
    IF json.exists THEN "config.json"
    ELSE IF yaml.exists THEN "config.yaml"
    ELSE None

\* _load_raw_from_file: a failure to read or parse gives {}; the mapping
\* part of what it returns
LoadRawFromFile(file) ==
    IF file.parses THEN file.data ELSE EmptyDict

\* line 92, {**raw_file_config}: TypeError when _load_raw_from_file
\* returned the parser's None or list
UnpackRaises(file) ==
    file.parses /\ file.value # "dict"

\* lines 94-96: the providers section, {} when missing or empty
ProvidersSection(data) ==
    IF "providers" \notin DOMAIN data \/ DOMAIN data["providers"] = {}
    THEN EmptyDict
    ELSE data["providers"]

\* mutant: a registry provider named in the file takes the registry entry
MergeDefaultsRegistryWins(providers, registry) ==
    [p \in (DOMAIN providers) \cup (DOMAIN registry) |->
        IF p \in DOMAIN registry THEN ModelDump(registry[p])
        ELSE providers[p]]

\* lines 99-106: every registry provider gets an entry, and an entry of the
\* file is filled field by field with what the registry has and it lacks
MergeDefaults(providers, registry) ==
    [p \in (DOMAIN providers) \cup (DOMAIN registry) |->
        IF p \notin DOMAIN registry THEN providers[p]
        ELSE IF p \notin DOMAIN providers THEN ModelDump(registry[p])
        ELSE LET dflt == ModelDump(registry[p])
                 mine == providers[p]
             IN  [f \in (DOMAIN mine) \cup (DOMAIN dflt) |->
                     IF f \in DOMAIN mine THEN mine[f] ELSE dflt[f]]]

\* mutant: the key of the file wins over the environment
ResolveApiKeyFileFirst(entry, env) ==
    LET env_key == Get(entry, "env_key", None) IN
    IF ~Truthy(env_key) THEN entry
    ELSE IF "api_key" \in DOMAIN entry THEN entry
    ELSE Put(entry, "api_key", Getenv(env, env_key))

\* lines 115-120: the API key of one provider entry
ResolveApiKey(entry, env) ==
    LET env_key == Get(entry, "env_key", None) IN
    IF ~Truthy(env_key) THEN entry
    ELSE IF Truthy(Getenv(env, env_key))
         THEN Put(entry, "api_key", Getenv(env, env_key))
    ELSE IF "api_key" \notin DOMAIN entry THEN Put(entry, "api_key", None)
    ELSE entry

\* mutant: the base URL of the file wins over the environment
ResolveBaseUrlFileFirst(name, entry, env, registry) ==
    IF "base_url" \in DOMAIN entry THEN entry
    ELSE IF Truthy(Getenv(env, BaseUrlVar(name)))
         THEN Put(entry, "base_url", Getenv(env, BaseUrlVar(name)))
    ELSE Put(entry, "base_url",
             IF name \in DOMAIN registry THEN registry[name].base_url
             ELSE None)

\* lines 125-133: the base URL of one provider entry
ResolveBaseUrl(name, entry, env, registry) ==
    IF Truthy(Getenv(env, BaseUrlVar(name)))
    THEN Put(entry, "base_url", Getenv(env, BaseUrlVar(name)))
    ELSE IF name = "ollama" /\ Truthy(Getenv(env, "OLLAMA_BASE_URL"))
         THEN Put(entry, "base_url", Getenv(env, "OLLAMA_BASE_URL"))
    ELSE IF "base_url" \notin DOMAIN entry
         THEN Put(entry, "base_url",
                  IF name \in DOMAIN registry THEN registry[name].base_url
                  ELSE None)
    ELSE entry

\* lines 111-133: the environment overrides of every provider entry
ApplyEnvironment(providers, env, registry) ==
    [p \in DOMAIN providers |->
        ResolveBaseUrl(p, ResolveApiKey(providers[p], env), env, registry)]

\* mutant: the key of the active provider is copied as the file gave it,
\* before the environment overrides
SetActiveApiKeyFromFile(data, merged) ==
    LET current_provider_name == Get(data, "provider", DEFAULT_PROVIDER) IN
    IF current_provider_name \in DOMAIN merged
    THEN Put(data, "api_key",
             Get(merged[current_provider_name], "api_key", None))
    ELSE data

\* lines 137-140: the key of the active provider is copied to the top
\* level; merged is the providers section before the environment overrides
SetActiveApiKey(data, merged) ==
    LET current_provider_name == Get(data, "provider", DEFAULT_PROVIDER) IN
    IF current_provider_name \in DOMAIN data["providers"]
    THEN Put(data, "api_key",
             Get(data["providers"][current_provider_name], "api_key", None))
    ELSE data

\* `if k not in app_config_data or not app_config_data[k]`
BackfillOne(data, k, dflt) ==
    IF k \notin DOMAIN data \/ ~Truthy(data[k]) THEN Put(data, k, dflt)
    ELSE data

\* lines 145-153: the defaults of the top-level settings
Backfill(data) ==
    BackfillOne(
        BackfillOne(
            BackfillOne(
                BackfillOne(data, "model", DEFAULT_MODEL),
                "approvalMode", DEFAULT_APPROVAL_MODE),
            "instructions", DEFAULT_INSTRUCTIONS),
        "default_provider", DEFAULT_PROVIDER)

\* whether AppConfig(**app_config_data) validates
AppConfigValid(data) ==
    /\ Get(data, "approvalMode", None) \in ApprovalModes \cup {None}
    /\ \A p \in DOMAIN data["providers"] :
          ProviderInfoValid(data["providers"][p])

\* AppConfig(**app_config_data)
AppConfig(data) ==
    [model |-> Get(data, "model", None),
     provider |-> Get(data, "provider", None),
     approvalMode |-> Get(data, "approvalMode", DEFAULT_APPROVAL_MODE),
     instructions |-> Get(data, "instructions", None),
     providers |-> [p \in DOMAIN data["providers"] |->
                       ProviderInfoOf(data["providers"][p])],
     default_provider |-> Get(data, "default_provider", None),
     api_key |-> Get(data, "api_key", None)]

\* lines 92-153: app_config_data as load_config has it before validation,
\* from the raw mapping of the file
Resolve(raw, env) ==
    LET registry == DEFAULT_PROVIDERS(env)
        merged == MergeDefaults(ProvidersSection(raw), registry)
        resolved == ApplyEnvironment(merged, env, registry)
    IN  Backfill(SetActiveApiKey(Put(raw, "providers", resolved), merged))

\* whether load_config raises: ProviderInfo(**provider_data) of line 112
\* or AppConfig(**app_config_data) of line 156 does not validate
LoadRaises(raw, env) ==
    \/ \E p \in DOMAIN MergeDefaults(ProvidersSection(raw),
                                     DEFAULT_PROVIDERS(env)) :
          ~ProviderInfoValid(MergeDefaults(ProvidersSection(raw),
                                           DEFAULT_PROVIDERS(env))[p])
    \/ ~AppConfigValid(Resolve(raw, env))

\* no client: create_openai_client has not returned one
NoClient == [cls |-> None, kwargs |-> EmptyDict, error |-> None]

(***************************************************************************)
(* Inputs of the resolver: environments and settings files                 *)
(***************************************************************************)
EnvVars ==
    { "OPENAI_API_KEY", "AZURE_OPENAI_API_KEY", "CUSTOM_API_KEY",
      "OLLAMA_BASE_URL", "AZURE_BASE_URL" }

\* the values a variable takes in the environments drawn; None is unset
EnvValues(var) ==
    CASE var = "OPENAI_API_KEY" -> { None, "", "sk-env-openai" }
      [] var = "AZURE_OPENAI_API_KEY" -> { None, "env-azure-key" }
      [] var = "CUSTOM_API_KEY" -> { None, "env-custom-key" }
      [] var = "OLLAMA_BASE_URL" -> { None, "http://env-ollama:11434" }
      [] var = "AZURE_BASE_URL" -> { None, "", "https://env-azure.openai.com" }

\* os.environ for one choice of values
EnvOf(choice) ==
    [v \in { w \in EnvVars : choice[w] # None } |-> choice[v]]

ProviderEnvironments ==
    { EnvOf(choice) :
          choice \in { c \in [EnvVars -> UNION { EnvValues(v) : v \in EnvVars }] :
                           \A v \in EnvVars : c[v] \in EnvValues(v) } }

\* the CODEX_ variables of env_map in test_load_config_env_var_override
CodexEnv ==
    [CODEX_MODEL |-> "env-model",
     CODEX_PROVIDER |-> "azure",
     CODEX_APPROVAL_MODE |-> "manual"]

\* {**a, **b}
Merge(a, b) ==
    [k \in (DOMAIN a) \cup (DOMAIN b) |->
        IF k \in DOMAIN b THEN b[k] ELSE a[k]]

\* every environment drawn, without and with the CODEX_ variables
Environments ==
    ProviderEnvironments
        \cup { Merge(env, CodexEnv) : env \in ProviderEnvironments }

\* json_content of test_load_config_from_json_file
JsonContent ==
    [model |-> "test-model-json",
     provider |-> "openai",
     approvalMode |-> "none",
     instructions |-> "JSON instructions",
     providers |->
        [openai |-> [api_key |-> "sk-json-openai",
                     base_url |-> "json-openai-url"],
         custom_provider |-> [name |-> "Custom", api_key |-> "customkey"]],
     default_provider |-> "openai"]

\* yaml_content of test_load_config_from_yaml_file
YamlContent ==
    [model |-> "test-model-yaml",
     provider |-> "ollama",
     providers |-> [ollama |-> [base_url |-> "http://yaml-ollama:11434"]]]

\* azure is active, with a key and an endpoint in the file; the custom
\* provider names the variable of its key
AzureContent ==
    [provider |-> "azure",
     providers |->
        [azure |-> [api_key |-> "file-azure-key",
                    base_url |-> "https://file-azure.openai.com"],
         custom_provider |-> [name |-> "Custom",
                              env_key |-> "CUSTOM_API_KEY",
                              api_key |-> "customkey"]]]

\* a file that names no active provider
ModelOnlyContent == [model |-> "test-model"]

\* a provider entry of the file without a name
NamelessContent ==
    [provider |-> "custom_provider",
     providers |-> [custom_provider |-> [api_key |-> "customkey"]]]

\* the settings files found on disk: <<config.json, config.yaml>>
FilePairs ==
    { <<NoFile, NoFile>>,
      <<File(EmptyDict), NoFile>>,
      <<File(JsonContent), NoFile>>,
      <<NoFile, File(YamlContent)>>,
      <<File(AzureContent), NoFile>>,
      <<File(ModelOnlyContent), NoFile>>,
      <<File(NamelessContent), NoFile>>,
      <<Unparsable, NoFile>>,
      <<NullFile, NoFile>>,
      <<NoFile, NullFile>>,
      <<ListFile, NoFile>>,
      <<NoFile, Unparsable>>,
      <<File(JsonContent), File(YamlContent)>> }

(***************************************************************************)
(* load_config                                                             *)
(***************************************************************************)
\* mutant: the bootstrap writes whether or not a settings file exists
BootstrapNeededAlways(json, yaml) == TRUE

\* `if not _get_config_filepath():` of _bootstrap_default_config_file
BootstrapNeeded(json, yaml) ==
    GetConfigFilepath(json, yaml) = None

\* load_config(): bootstrap of the default file when there is none, choice
\* of the file, parse, resolution, validation.  The open(..., 'w') of the
\* bootstrap is not guarded: when it fails load_config raises.
LoadConfig ==
    LET bootstrap == BootstrapNeeded(config_json, config_yaml)
        json == IF bootstrap /\ writable
                THEN File(BootstrapContent(environ))
                ELSE config_json
        file == IF GetConfigFilepath(json, config_yaml) = "config.json"
                THEN json
                ELSE config_yaml
        raw == LoadRawFromFile(file)
        raises == \/ bootstrap /\ ~writable
                  \/ UnpackRaises(file)
                  \/ LoadRaises(raw, environ)
    IN  /\ config_json' = json
        /\ raw_file_config' = raw
        /\ IF raises
           THEN /\ load_outcome' = "raised"
                /\ app_config' = EmptyDict
                /\ config' = config
           ELSE /\ load_outcome' = "returned"
                /\ app_config' = AppConfig(Resolve(raw, environ))
                /\ config' = app_config'
        /\ call_args' = <<>>
        /\ call_outcome' = load_outcome'
        /\ UNCHANGED <<environ, config_yaml, writable, oai_client>>

(***************************************************************************)
(* save_config and set_api_key                                             *)
(***************************************************************************)
\* mutant: save_config always writes the JSON file
SavePathJsonAlways(json, yaml) == "config.json"

\* lines 164-166: the file save_config writes
SavePath(json, yaml) ==
    IF GetConfigFilepath(json, yaml) = None
    THEN "config.json"
    ELSE GetConfigFilepath(json, yaml)

\* the fields of StoredConfig that hold a setting
StoredSettings ==
    { "model", "provider", "approvalMode", "instructions", "default_provider" }

\* mutant: the api_key of an entry is never written
StoredProviderNoKey(info) ==
    ModelDump([f \in (DOMAIN info) \ {"api_key"} |-> info[f]])

\* line 175: info.model_dump(exclude_none=True,
\*                           exclude={"api_key"} if not info.api_key else {})
StoredProvider(info) ==
    ModelDump(IF ~Truthy(info.api_key)
              THEN [f \in (DOMAIN info) \ {"api_key"} |-> info[f]]
              ELSE info)

\* lines 170-178: StoredConfig(...).model_dump(exclude_none=True,
\* by_alias=True), the mapping save_config writes
StoredConfigDump(cfg) ==
    [k \in { x \in StoredSettings : cfg[x] # None } \cup {"providers"} |->
        IF k = "providers"
        THEN [p \in DOMAIN cfg.providers |-> StoredProvider(cfg.providers[p])]
        ELSE cfg[k]]

\* mutant: a failed write is raised to the caller
OnWriteFailureRaise == "raised"

\* lines 187-188: `except Exception as e: print(...)`
OnWriteFailure == "reported"

\* save_config(config): the write of the chosen file, inside try
SaveConfig ==
    /\ DOMAIN config # {}
    /\ LET path == SavePath(config_json, config_yaml)
           content == File(StoredConfigDump(config))
       IN  IF writable
           THEN /\ config_json' = IF path = "config.json" THEN content
                                  ELSE config_json
                /\ config_yaml' = IF path = "config.yaml" THEN content
                                  ELSE config_yaml
                /\ call_outcome' = "returned"
           ELSE /\ UNCHANGED <<config_json, config_yaml>>
                /\ call_outcome' = OnWriteFailure
    /\ call_args' = <<>>
    /\ UNCHANGED <<environ, raw_file_config, app_config, load_outcome,
                   config, writable, oai_client>>

\* mutant: the top-level api_key follows every call
SetApiKeyOfTopAlways(api_key, provider_name, cfg) ==
    IF provider_name \in DOMAIN cfg.providers
    THEN [cfg EXCEPT !.providers[provider_name].api_key = api_key,
                     !.api_key = api_key]
    ELSE [cfg EXCEPT !.providers =
              Put(cfg.providers, provider_name,
                  ProviderInfoOf([name |-> provider_name,
                                  api_key |-> api_key]))]

\* lines 210-219 of set_api_key: the configuration it returns
SetApiKeyOf(api_key, provider_name, cfg) ==
    IF provider_name \in DOMAIN cfg.providers
    THEN IF cfg.provider = provider_name
         THEN [cfg EXCEPT !.providers[provider_name].api_key = api_key,
                          !.api_key = api_key]
         ELSE [cfg EXCEPT !.providers[provider_name].api_key = api_key]
    ELSE [cfg EXCEPT !.providers =
              Put(cfg.providers, provider_name,
                  ProviderInfoOf([name |-> provider_name,
                                  api_key |-> api_key]))]

\* set_api_key(api_key, provider_name, config): config is changed in place
SetApiKey(api_key, provider_name) ==
    /\ DOMAIN config # {}
    /\ config' = SetApiKeyOf(api_key, provider_name, config)
    /\ call_args' = <<api_key, provider_name>>
    /\ call_outcome' = "returned"
    /\ UNCHANGED <<environ, config_json, config_yaml, raw_file_config,
                   app_config, load_outcome, writable, oai_client>>

\* the keys and the providers of the set_api_key calls
NewApiKeys == { "sk-new-key" }

SetApiKeyProviders == { "openai", "anthropic", "custom_provider" }

(***************************************************************************)
(* create_openai_client (src/utils/openai_client_factory.py)               *)
(***************************************************************************)
AZURE_OPENAI_API_VERSION == "2023-07-01-preview"

OPENAI_TIMEOUT_MS == 30000

\* raise ValueError(message)
ConfigurationError(message) ==
    [cls |-> None, kwargs |-> EmptyDict, error |-> message]

\* OpenAI(**client_args) / AzureOpenAI(..., **client_args)
Client(cls, kwargs) == [cls |-> cls, kwargs |-> kwargs, error |-> None]

\* mutant: the timeout is passed in milliseconds
ClientArgsMs(api_key) ==
    [api_key |-> api_key, timeout |-> OPENAI_TIMEOUT_MS]

\* lines 31-38: api_key and timeout, in seconds
ClientArgs(api_key) ==
    [api_key |-> api_key, timeout |-> OPENAI_TIMEOUT_MS \div 1000]

\* mutant: every provider needs an API key
CredentialOptionalNone == {}

\* the providers that need no API key
CredentialOptional == { "ollama" }

\* mutant: the credential is taken from the top-level api_key
CreateOpenaiClientTopLevelKey(cfg) ==
    LET provider_name == cfg.provider IN
    IF ~Truthy(provider_name)
    THEN ConfigurationError("Provider name is not configured in AppConfig.")
    ELSE IF provider_name \notin DOMAIN cfg.providers
    THEN ConfigurationError("Configuration for provider '" \o provider_name
                            \o "' not found.")
    ELSE LET provider_info == cfg.providers[provider_name]
             api_key == cfg.api_key
             base_url == provider_info.base_url
         IN  IF ~Truthy(api_key) /\ provider_name \notin CredentialOptional
             THEN ConfigurationError("API key for provider '" \o provider_name
                                     \o "' is missing.")
             ELSE IF provider_name = "azure"
             THEN IF ~Truthy(base_url)
                  THEN ConfigurationError("Base URL (Azure OpenAI endpoint) is required for Azure provider.")
                  ELSE Client("AzureOpenAI",
                              [azure_endpoint |-> base_url,
                               api_version |-> AZURE_OPENAI_API_VERSION,
                               api_key |-> api_key,
                               timeout |-> ClientArgs(api_key).timeout])
             ELSE IF Truthy(base_url)
                  THEN Client("OpenAI",
                              [api_key |-> api_key,
                               timeout |-> ClientArgs(api_key).timeout,
                               base_url |-> base_url])
                  ELSE Client("OpenAI", ClientArgs(api_key))

\* create_openai_client(app_config): the client, or the error raised
CreateOpenaiClient(cfg) ==
    LET provider_name == cfg.provider IN
    IF ~Truthy(provider_name)
    THEN ConfigurationError("Provider name is not configured in AppConfig.")
    ELSE IF provider_name \notin DOMAIN cfg.providers
    THEN ConfigurationError("Configuration for provider '" \o provider_name
                            \o "' not found.")
    ELSE LET provider_info == cfg.providers[provider_name]
             api_key == provider_info.api_key
             base_url == provider_info.base_url
         IN  IF ~Truthy(api_key) /\ provider_name \notin CredentialOptional
             THEN ConfigurationError("API key for provider '" \o provider_name
                                     \o "' is missing.")
             ELSE IF provider_name = "azure"
             THEN IF ~Truthy(base_url)
                  THEN ConfigurationError("Base URL (Azure OpenAI endpoint) is required for Azure provider.")
                  ELSE Client("AzureOpenAI",
                              [azure_endpoint |-> base_url,
                               api_version |-> AZURE_OPENAI_API_VERSION,
                               api_key |-> api_key,
                               timeout |-> ClientArgs(api_key).timeout])
             ELSE IF Truthy(base_url)
                  THEN Client("OpenAI",
                              [api_key |-> api_key,
                               timeout |-> ClientArgs(api_key).timeout,
                               base_url |-> base_url])
                  ELSE Client("OpenAI", ClientArgs(api_key))

\* create_openai_client(config) called on the configuration held
CreateClient ==
    /\ DOMAIN config # {}
    /\ oai_client' = CreateOpenaiClient(config)
    /\ call_args' = <<>>
    /\ call_outcome' = IF oai_client'.error # None THEN "raised"
                       ELSE "returned"
    /\ UNCHANGED <<environ, config_json, config_yaml, raw_file_config,
                   app_config, load_outcome, config, writable>>

\* a process that is about to call load_config: any of the environments
\* and settings files drawn; the agent loop is not built yet
InitConfig ==
    /\ InitLoop
    /\ ~on_item_callback
    /\ ~on_loading
    /\ instructions = <<>>
    /\ environ \in Environments
    /\ \E pair \in FilePairs :
          /\ config_json = pair[1]
          /\ config_yaml = pair[2]
    /\ raw_file_config = EmptyDict
    /\ app_config = EmptyDict
    /\ load_outcome = "none"
    /\ config = EmptyDict
    /\ writable \in BOOLEAN
    /\ call_args = <<>>
    /\ call_outcome = "none"
    /\ oai_client = NoClient

NextConfig ==
    /\ LoadConfig
    /\ op' = "load_config"
    /\ UNCHANGED loopVars

SpecConfig == InitConfig /\ [][NextConfig]_vars

\* azure is active with a key in the file and no endpoint anywhere
AzureNoEndpointContent ==
    [provider |-> "azure",
     providers |-> [azure |-> [api_key |-> "file-azure-key"]]]

\* app_config.provider of test_create_openai_client_missing_provider_config
UnknownProviderContent == [provider |-> "non_existent_provider"]

\* custom_oai_compat of base_app_config, as the active provider
CustomContent ==
    [provider |-> "custom_provider",
     providers |->
        [custom_provider |-> [name |-> "Custom",
                              api_key |-> "customkey",
                              base_url |-> "http://custom.api.example.com:8080/v1"]]]

\* google is active with a key in the file; the registry has no endpoint
GoogleContent ==
    [provider |-> "google",
     providers |-> [google |-> [api_key |-> "file-google-key"]]]

\* the environments and settings files of a session that loads, changes
\* and saves the configuration and builds clients from it
SettingsEnvironments ==
    { EmptyDict,
      [OPENAI_API_KEY |-> "sk-env-openai"],
      [AZURE_OPENAI_API_KEY |-> "env-azure-key"] }

SettingsFilePairs ==
    { <<NoFile, NoFile>>,
      <<File(JsonContent), NoFile>>,
      <<NoFile, File(YamlContent)>>,
      <<File(AzureContent), NoFile>>,
      <<File(AzureNoEndpointContent), NoFile>>,
      <<File(ModelOnlyContent), NoFile>>,
      <<File(UnknownProviderContent), NoFile>>,
      <<NoFile, File(CustomContent)>>,
      <<File(GoogleContent), NoFile>>,
      <<File(JsonContent), File(YamlContent)>> }

InitSettings ==
    /\ InitLoop
    /\ ~on_item_callback
    /\ ~on_loading
    /\ instructions = <<>>
    /\ environ \in SettingsEnvironments
    /\ \E pair \in SettingsFilePairs :
          /\ config_json = pair[1]
          /\ config_yaml = pair[2]
    /\ raw_file_config = EmptyDict
    /\ app_config = EmptyDict
    /\ load_outcome = "none"
    /\ config = EmptyDict
    /\ writable \in BOOLEAN
    /\ call_args = <<>>
    /\ call_outcome = "none"
    /\ oai_client = NoClient

\* the settings files are removed from the config directory by the user
RemoveFiles ==
    /\ config_json.exists \/ config_yaml.exists
    /\ config_json' = NoFile
    /\ config_yaml' = NoFile
    /\ call_args' = <<>>
    /\ call_outcome' = "none"
    /\ UNCHANGED <<environ, raw_file_config, app_config, load_outcome,
                   config, writable, oai_client>>

\* the calls of such a session, in any order, each noted in op
NextSettings ==
    /\ \/ LoadConfig /\ op' = "load_config"
       \/ RemoveFiles /\ op' = "remove"
       \/ SaveConfig /\ op' = "save_config"
       \/ \E api_key \in NewApiKeys, provider_name \in SetApiKeyProviders :
              SetApiKey(api_key, provider_name) /\ op' = "set_api_key"
       \/ CreateClient /\ op' = "create_openai_client"
    /\ UNCHANGED loopVars

SpecSettings == InitSettings /\ [][NextSettings]_vars

(***************************************************************************)
(* The command line (src/cli.py): the group callback loads the             *)
(* configuration and applies --model and --provider to it                  *)
(***************************************************************************)
\* lines 57-68 of cli(): the configuration after the options are applied
ApplyCliOptions(cl_model, cl_provider, cfg) ==
    LET with_model == IF Truthy(cl_model) THEN [cfg EXCEPT !.model = cl_model]
                      ELSE cfg
    IN  IF Truthy(cl_provider)
        THEN [with_model EXCEPT
                  !.provider = cl_provider,
                  !.api_key = IF cl_provider \in DOMAIN cfg.providers
                              THEN cfg.providers[cl_provider].api_key
                              ELSE None]
        ELSE with_model

\* cli(ctx, cl_model, cl_provider, ...) without --version and --config:
\* Context() calls load_config, whose exception ends the command, and the
\* options are applied to the object it returned
Cli(cl_model, cl_provider) ==
    LET bootstrap == BootstrapNeeded(config_json, config_yaml)
        json == IF bootstrap /\ writable THEN File(BootstrapContent(environ))
                ELSE config_json
        file == IF GetConfigFilepath(json, config_yaml) = "config.json"
                THEN json ELSE config_yaml
        raw == LoadRawFromFile(file)
        raises == \/ bootstrap /\ ~writable
                  \/ UnpackRaises(file)
                  \/ LoadRaises(raw, environ)
    IN  /\ config_json' = json
        /\ raw_file_config' = raw
        /\ IF raises
           THEN /\ load_outcome' = "raised"
                /\ app_config' = EmptyDict
                /\ config' = config
           ELSE /\ load_outcome' = "returned"
                /\ app_config' = AppConfig(Resolve(raw, environ))
                /\ config' = ApplyCliOptions(cl_model, cl_provider, app_config')
        /\ call_args' = <<cl_model, cl_provider>>
        /\ call_outcome' = load_outcome'
        /\ UNCHANGED <<environ, config_yaml, writable, oai_client>>

\* the values of --model and --provider: not given, a provider of the
\* registry, a provider without entry
CliModels == { None, "cli-model" }

CliProviders == { None, "azure", "custom_provider" }

\* the command line, and the calls of the configuration functions on the
\* object it holds
NextCli ==
    /\ \/ \E cl_model \in CliModels, cl_provider \in CliProviders :
              Cli(cl_model, cl_provider) /\ op' = "cli"
       \/ LoadConfig /\ op' = "load_config"
       \/ \E api_key \in NewApiKeys, provider_name \in SetApiKeyProviders :
              SetApiKey(api_key, provider_name) /\ op' = "set_api_key"
       \/ CreateClient /\ op' = "create_openai_client"
    /\ UNCHANGED loopVars

SpecCli == InitSettings /\ [][NextCli]_vars

(***************************************************************************)
(* The program: load_config, AgentLoopPy(app_config=config), then the      *)
(* methods of the instance                                                 *)
(***************************************************************************)
\* mutant: an instance is there whether or not __init__ returned
InstanceExistsAlways == TRUE

\* the caller holds an instance only when __init__ returned, that is when
\* create_openai_client returned a client for self.oai_client
InstanceExists == oai_client.cls # None

\* app_config.instructions as the text run() puts in the system message
InstructionsOf(cfg) ==
    IF Truthy(cfg.instructions) THEN <<cfg.instructions>> ELSE <<>>

\* AgentLoopPy(app_config=config): create_openai_client is called first
\* and what it raises leaves __init__
Construct ==
    /\ DOMAIN config # {}
    /\ ~InstanceExists
    /\ oai_client' = CreateOpenaiClient(config)
    /\ call_args' = <<>>
    /\ IF oai_client'.error # None
       THEN /\ call_outcome' = "raised"
            /\ UNCHANGED loopVars
       ELSE /\ call_outcome' = "returned"
            /\ instructions' = InstructionsOf(config)
            /\ canceled' = FALSE
            /\ transcript' = <<>>
            /\ current_stream' = "None"
            /\ UNCHANGED <<on_item_callback, on_loading, pc, prompt,
                           messages_payload, full_assistant_response, e,
                           chunksRead, runCalls, requests, events, outcome,
                           turnsEnded, emptyTurns, cleared>>
    /\ UNCHANGED <<environ, config_json, config_yaml, raw_file_config,
                   app_config, load_outcome, config, writable>>

\* the settings files of the programs drawn: none, one that names no
\* entry, azure without endpoint, and two from which a client is built
AppFilePairs ==
    { <<NoFile, NoFile>>,
      <<File(UnknownProviderContent), NoFile>>,
      <<File(AzureNoEndpointContent), NoFile>>,
      <<File(JsonContent), NoFile>>,
      <<NoFile, File(YamlContent)>> }

InitApp ==
    /\ InitLoop
    /\ ~on_item_callback
    /\ ~on_loading
    /\ instructions = <<>>
    /\ environ = EmptyDict
    /\ \E pair \in AppFilePairs :
          /\ config_json = pair[1]
          /\ config_yaml = pair[2]
    /\ raw_file_config = EmptyDict
    /\ app_config = EmptyDict
    /\ load_outcome = "none"
    /\ config = EmptyDict
    /\ writable = TRUE
    /\ call_args = <<>>
    /\ call_outcome = "none"
    /\ oai_client = NoClient

NextApp ==
    \/ /\ ~InstanceExists
       /\ \/ LoadConfig /\ op' = "load_config" /\ UNCHANGED loopVars
          \/ Construct /\ op' = "__init__"
    \/ /\ InstanceExists
       /\ \/ RunStep /\ op' = "run"
          \/ ClearHistory /\ op' = "clear_history"
          \/ Cancel /\ op' = "cancel"
       /\ UNCHANGED configVars

SpecApp == InitApp /\ [][NextApp]_vars

(***************************************************************************)
(* What the tests of run() expect of the error string                      *)
(***************************************************************************)
\* "API Error (Status 500)"
StatusLabel(code) == <<"API", "Error", "(Status", code \o ")">>

\* the text the tests look for in the error string of each error class; the
\* tests name none for a bare APIError, whose label is the prefix run gives it
KindLabel(err) ==
    CASE err.cls = "RateLimitError" -> <<"Rate", "Limit", "Exceeded">>
      [] err.cls = "AuthenticationError" -> <<"Authentication", "Error">>
      [] err.cls = "NotFoundError" ->
            <<"Model", "not", "found", "or", "resource", "does", "not", "exist">>
      [] err.cls = "APIConnectionError" -> <<"Connection", "Error">>
      [] err.cls = "APIStatusError" -> StatusLabel(err.status_code)
      [] OTHER -> <<"OpenAI", "API", "Error:">>

(***************************************************************************)
(* Properties                                                              *)
(***************************************************************************)
\* the step in which a run() call that started a turn returns
TurnEnds == pc # "idle" /\ pc' = "idle"

\* the step in which run() is called and starts a turn
TurnStarts == pc = "idle" /\ pc' = "requesting"

\* the step in which run() is called with the cancellation flag set
NoOpRun == pc = "idle" /\ canceled /\ runCalls' = runCalls + 1

\* C1: with every run consumed to its end and no clear_history, the
\* transcript length after N turns that ended completed, failed or cancelled
\* is 2N minus the number of those turns whose accumulated text was empty.
C1_TranscriptLength ==
    (pc = "idle" /\ ~cleared) =>
        Len(transcript) = 2 * turnsEnded - emptyTurns

\* two turns have ended, one with text and one without
C1_Witness ==
    pc = "idle" /\ ~cleared /\ turnsEnded = 2 /\ emptyTurns = 1

\* C2: the list sent by a run call is the system message, then every
\* transcript entry recorded before the call, in order, then the user entry of
\* the current prompt; after one completed turn with text the second call
\* sends system, user1, assistant1, user2.
C2_HistoryInclusion ==
    [][TurnStarts =>
        /\ messages_payload' =
              << [role |-> "system",
                  content |-> SystemMessageContent(instructions)] >>
              \o transcript \o << UserEntry(prompt') >>
        /\ (turnsEnded = 1 /\ emptyTurns = 0 /\ ~cleared) =>
              /\ Len(messages_payload') = 4
              /\ [i \in 1..4 |-> messages_payload'[i].role] =
                    <<"system", "user", "assistant", "user">>
              /\ messages_payload'[2].content = PromptOf(1)
              /\ messages_payload'[4].content = PromptOf(2)
      ]_vars

\* the second call is awaiting its request, after a first turn with text
C2_Witness ==
    /\ pc = "requesting"
    /\ Len(messages_payload) = 4
    /\ messages_payload[3].role = "assistant"

\* C3: at the end of every turn that yielded at least one fragment, the last
\* transcript entry is an assistant entry holding exactly the concatenation,
\* in order, of the fragments that run call yielded.
C3_PartialOutputKept ==
    [][(TurnEnds /\ Yielded(events') # <<>>) =>
        /\ transcript' # <<>>
        /\ Last(transcript') = AssistantEntry(Join(Yielded(events')))
      ]_vars

\* a turn cancelled mid-stream has ended with partial output recorded
C3_Witness ==
    /\ pc = "idle"
    /\ outcome = "cancelled"
    /\ Yielded(events) # <<>>
    /\ transcript # <<>>
    /\ Last(transcript) = AssistantEntry(Join(Yielded(events)))

\* C4: a run call made with the cancellation flag set yields nothing, issues
\* no request, calls neither sink and leaves the transcript and the in-flight
\* stream reference as they were.
C4_RunAfterCancelIsNoOp ==
    [][NoOpRun =>
        /\ events' = <<>>
        /\ requests' = requests
        /\ pc' = "idle"
        /\ UNCHANGED <<transcript, current_stream, canceled>>
      ]_vars

\* run was called on a cancelled instance that holds a transcript
C4_Witness ==
    outcome = "noop" /\ canceled /\ transcript # <<>> /\ events = <<>>

\* whether cancel() set the flag during the latest run
HasCancel(evs) == \E i \in 1..Len(evs) : evs[i].call = "cancel"

\* the number of fragments yielded after the cancel() call of the latest run
YieldsAfterCancel(evs) ==
    IF ~HasCancel(evs) THEN 0
    ELSE LET first == CHOOSE i \in 1..Len(evs) :
                          /\ evs[i].call = "cancel"
                          /\ \A j \in 1..(i - 1) : evs[j].call # "cancel"
         IN  Cardinality({ i \in (first + 1)..Len(evs) : evs[i].call = "yield" })

\* the latest turn has yielded its error string
TurnFailed == pc = "yield_error" \/ outcome = "failed"

\* C5 as stated: after cancel() is called during a run, at most one more
\* fragment is yielded by that run.
C5_AtMostOneAfterCancel == YieldsAfterCancel(events) <= 1

\* C5 amended: after cancel() is called during a run, at most one more
\* fragment is yielded unless the provider fails after the cancel; then the
\* error string is yielded as well, and the count is at most 2.
C5_CancelBound ==
    YieldsAfterCancel(events) <= (IF TurnFailed THEN 2 ELSE 1)

\* the item sink called cancel(), its fragment was yielded, and the next
\* chunk was dropped
C5_Witness ==
    /\ pc = "idle"
    /\ outcome = "cancelled"
    /\ HasCancel(events)
    /\ YieldsAfterCancel(events) = 1

\* the step in which an exception of the request or the stream is caught
FailStep == pc # "yield_error" /\ pc' = "yield_error"

\* whether s ends with suffix
EndsWith(s, suffix) ==
    /\ Len(suffix) <= Len(s)
    /\ SubSeq(s, Len(s) - Len(suffix) + 1, Len(s)) = suffix

\* C6: a failure of the request or of the stream does not leave run; exactly
\* one error string is formatted, appended to the accumulator, passed to the
\* item sink and yielded as the last fragment, and the assistant entry of the
\* turn ends with it.
C6_FailureBecomesText ==
    [][/\ outcome' # "raised"
       /\ FailStep =>
            LET msg == FormatError(e') IN
            /\ e' \in Errors
            /\ full_assistant_response' = Append(full_assistant_response, msg)
            /\ Yielded(events') = Append(Yielded(events), msg)
            /\ on_item_callback =>
                  SinkItems(events') = Append(SinkItems(events), msg)
            /\ Cardinality({ i \in 1..Len(Yielded(events')) :
                                 Yielded(events')[i] = msg }) = 1
       /\ (pc = "yield_error" /\ pc' = "idle") =>
            /\ outcome' = "failed"
            /\ Yielded(events') = Yielded(events)
            /\ Last(Yielded(events')) = FormatError(e)
            /\ transcript' # <<>>
            /\ Last(transcript').role = "assistant"
            /\ EndsWith(Last(transcript').content, FormatError(e))
      ]_vars

\* a turn that had yielded a fragment failed and has ended
C6_Witness ==
    /\ pc = "idle"
    /\ outcome = "failed"
    /\ Len(Yielded(events)) = 2
    /\ transcript # <<>>
    /\ Last(transcript).role = "assistant"

\* C7: for each provider error class the error string holds the label of
\* that class and the provider's message, and the labels of distinct classes
\* differ.
C7_KindLabelInErrorString ==
    /\ \A e1, e2 \in { err \in Errors : err.cls \in ApiErrorClasses } :
          e1.cls # e2.cls => KindLabel(e1) # KindLabel(e2)
    /\ (pc = "yield_error" /\ e.cls \in ApiErrorClasses) =>
          /\ Contains(Last(Yielded(events)), KindLabel(e))
          /\ Contains(Last(Yielded(events)), e.message)

\* C8: the error string of a structured status error with status code S
\* holds "API Error (Status S)".
C8_StatusCodeInErrorString ==
    (pc = "yield_error" /\ e.cls = "APIStatusError") =>
        Contains(Last(Yielded(events)), StatusLabel(e.status_code))

\* C9 as stated: with a loading sink, every run call that has returned has
\* called it exactly twice, with true and then with false.
C9_LoadingTwicePerRunCall ==
    (on_loading /\ pc = "idle" /\ runCalls > 0) =>
        LoadingCalls(events) = << <<"True">>, <<"False">> >>

\* C9 amended: with a loading sink, every run call made while the
\* cancellation flag is clear calls it exactly twice, first of all with true
\* and last of all with false, whether the turn completes, is cancelled or
\* fails; a run call made with the flag set does not call it.
C9_LoadingTwicePerTurn ==
    on_loading =>
        /\ outcome \in {"completed", "cancelled", "failed"} =>
              /\ LoadingCalls(events) = << <<"True">>, <<"False">> >>
              /\ Head(events) = Ev("on_loading", <<"True">>)
              /\ Last(events) = Ev("on_loading", <<"False">>)
        /\ outcome = "running" =>
              /\ LoadingCalls(events) = << <<"True">> >>
              /\ Head(events) = Ev("on_loading", <<"True">>)
        /\ outcome = "noop" => LoadingCalls(events) = <<>>

\* a failed turn has ended with the loading sink told so
C9_Witness ==
    /\ on_loading
    /\ pc = "idle"
    /\ outcome = "failed"
    /\ LoadingCalls(events) = << <<"True">>, <<"False">> >>

\* C10: with an item sink, the values passed to it during a run are the
\* fragments the run yields, in the same order, and the sink call of each
\* fragment comes before its yield.
C10_SinkMatchesYields ==
    on_item_callback =>
        /\ SinkItems(events) = Yielded(events)
        /\ \A i \in 1..Len(events) :
              events[i].call = "yield" =>
                  \E j \in 1..(i - 1) :
                      /\ events[j] = Ev("on_item", events[i].arg)
                      /\ \A k \in (j + 1)..(i - 1) :
                            events[k].call \notin {"yield", "on_item"}

\* the sink has been given a streamed fragment and then the error string
C10_Witness ==
    /\ on_item_callback
    /\ outcome = "failed"
    /\ Len(SinkItems(events)) = 2
    /\ SinkItems(events)[2] = FormatError([cls |-> "Exception",
                                           message |-> <<"Server", "error">>,
                                           status_code |-> "None"])

\* the roles of the transcript entries, in order
Roles(tr) == [i \in 1..Len(tr) |-> tr[i].role]

\* C11: with run calls only (no clear_history), a turn appends its user
\* entry at its start and its assistant entry, if any, at its end right after
\* that user entry; so every assistant entry of the transcript is immediately
\* preceded by the user entry of its turn and no two assistant entries are
\* adjacent.
C11_UserThenAssistant ==
    [][~cleared' =>
        /\ TurnStarts => transcript' = Append(transcript, UserEntry(prompt'))
        /\ pc # "idle" => Last(transcript) = UserEntry(prompt)
        /\ TurnEnds =>
              \/ transcript' = transcript
              \/ /\ Len(transcript') = Len(transcript) + 1
                 /\ SubSeq(transcript', 1, Len(transcript)) = transcript
                 /\ Last(transcript').role = "assistant"
        /\ \A i \in 1..Len(transcript') :
              transcript'[i].role = "assistant" =>
                  /\ i > 1
                  /\ transcript'[i - 1].role = "user"
      ]_vars

\* two turns have each recorded their user entry and then their assistant
\* entry
C11_Witness ==
    /\ pc = "idle"
    /\ ~cleared
    /\ Roles(transcript) = <<"user", "assistant", "user", "assistant">>
    /\ transcript[1] = UserEntry(PromptOf(1))
    /\ transcript[3] = UserEntry(PromptOf(2))

\* the chunks the latest run has received from the provider, in order
ReceivedChunks(evs) == ArgsOf(evs, "chunk")

\* the non-empty text contents of a sequence of chunks, in order
RECURSIVE TextsOf(_)
TextsOf(chunks) ==
    IF chunks = <<>> THEN <<>>
    ELSE (IF ContentPart(Head(chunks)) # <<>>
          THEN <<ContentPart(Head(chunks))>> ELSE <<>>)
         \o TextsOf(Tail(chunks))

\* the fragments the latest run has yielded from chunks: all of them but the
\* error string of a failed turn
StreamedFragments(evs) ==
    IF TurnFailed THEN SubSeq(Yielded(evs), 1, Len(Yielded(evs)) - 1)
    ELSE Yielded(evs)

\* C12: within a run the streamed fragments yielded are the non-empty text
\* contents of the chunks received, in receipt order, each once and unmerged;
\* the accumulator holds exactly the fragments yielded, and with an item sink
\* its calls are as many, so a chunk with no choices or with empty text gives
\* no fragment, no sink call and no accumulator change.
C12_FragmentsAreChunkTexts ==
    /\ StreamedFragments(events) = TextsOf(ReceivedChunks(events))
    /\ pc # "idle" => full_assistant_response = Yielded(events)
    /\ on_item_callback => Len(SinkItems(events)) = Len(Yielded(events))

\* a run with an item sink has received a chunk without text and then a
\* chunk with text
C12_Witness ==
    /\ Len(ReceivedChunks(events)) = 2
    /\ ContentPart(ReceivedChunks(events)[1]) = <<>>
    /\ StreamedFragments(events) = <<TextOf(2)>>
    /\ on_item_callback

\* C13: clear_history() leaves the transcript empty whatever it held, a
\* second call right after the first changes nothing, and no call changes the
\* cancellation flag, the configuration, the sinks, the in-flight stream
\* reference or the position and locals of a run in flight.
C13_ClearHistoryFrame ==
    [][op' = "clear_history" =>
        /\ transcript' = <<>>
        /\ UNCHANGED <<canceled, instructions, on_item_callback, on_loading,
                       current_stream, pc, prompt, messages_payload,
                       full_assistant_response, e, requests, events>>
        /\ op = "clear_history" => UNCHANGED loopVars
      ]_vars

\* clear_history() was called on a cancelled instance during its second
\* turn, with a stream in flight
C13_Witness ==
    /\ op = "clear_history"
    /\ transcript = <<>>
    /\ canceled
    /\ current_stream = "stream"
    /\ turnsEnded = 1
    /\ emptyTurns = 0

\* C14: a run call made right after clear_history() sends exactly two
\* messages, the system message and the user entry of its prompt, whatever
\* turns came before the clear.
C14_RunAfterClearSendsTwo ==
    [][(op = "clear_history" /\ TurnStarts) =>
        /\ Len(messages_payload') = 2
        /\ messages_payload' =
              << [role |-> "system",
                  content |-> SystemMessageContent(instructions)],
                 UserEntry(prompt') >>
      ]_vars

\* the second run call awaits its request with two messages, after a first
\* turn that recorded text and was cleared
C14_Witness ==
    /\ op = "run"
    /\ pc = "requesting"
    /\ runCalls = 2
    /\ turnsEnded = 1
    /\ emptyTurns = 0
    /\ Len(messages_payload) = 2
    /\ messages_payload[2] = UserEntry(PromptOf(2))

\* C15: cancel() sets the cancellation flag, a further call changes nothing,
\* and no call changes the in-flight stream reference, the transcript or the
\* position and locals of a run in flight.
C15_CancelSetsFlagOnly ==
    [][op' = "cancel" =>
        /\ canceled'
        /\ UNCHANGED <<transcript, current_stream, instructions,
                       on_item_callback, on_loading, pc, prompt,
                       messages_payload, full_assistant_response, e, requests>>
        /\ (op = "cancel" \/ canceled) => UNCHANGED loopVars
      ]_vars

\* cancel() was called with a stream in flight and a transcript recorded
C15_Witness ==
    /\ op = "cancel"
    /\ canceled
    /\ current_stream = "stream"
    /\ Len(transcript) = 3

\* the providers section of the file load_config parsed
FileProviders == ProvidersSection(raw_file_config)

\* whether the file gives field f of provider p
FileGives(p, f) ==
    /\ p \in DOMAIN FileProviders
    /\ f \in DOMAIN FileProviders[p]

\* the registry as default_providers.py writes it
Registry == DEFAULT_PROVIDERS(EmptyDict)

\* field f of provider p in the registry; None for a provider it lacks
RegistryDefault(p, f) ==
    IF p \in DOMAIN Registry THEN Registry[p][f] ELSE None

\* the value of field f of provider p by the rule file, then registry
FileThenRegistry(p, f) ==
    IF FileGives(p, f) THEN FileProviders[p][f] ELSE RegistryDefault(p, f)

\* whether the variable is in the environment, with any value
IsSet(var) == var \in DOMAIN environ

\* C16 as stated: for every provider whose entry names a credential
\* variable, the resolved credential is the value of that variable when it is
\* set, else the file's value when present, else none.
C16_CredentialPrecedence ==
    load_outcome = "returned" =>
        \A p \in DOMAIN app_config.providers :
            LET entry == app_config.providers[p] IN
            Truthy(entry.env_key) =>
                entry.api_key =
                    IF IsSet(entry.env_key) THEN environ[entry.env_key]
                    ELSE FileThenRegistry(p, "api_key")

\* C16 amended: for every provider whose entry names a credential variable,
\* the resolved credential is the value of that variable when it is set to a
\* non-empty value, else (unset or empty) the file's value when present, else
\* none.
C16_CredentialPrecedenceNonEmpty ==
    load_outcome = "returned" =>
        \A p \in DOMAIN app_config.providers :
            LET entry == app_config.providers[p] IN
            Truthy(entry.env_key) =>
                entry.api_key =
                    IF Truthy(Getenv(environ, entry.env_key))
                    THEN environ[entry.env_key]
                    ELSE FileThenRegistry(p, "api_key")

\* the file and the environment both give the key of openai, and the
\* environment's is the one resolved
C16_Witness ==
    /\ load_outcome = "returned"
    /\ FileGives("openai", "api_key")
    /\ Getenv(environ, "OPENAI_API_KEY") = "sk-env-openai"
    /\ app_config.providers["openai"].api_key = "sk-env-openai"

\* C17 as stated: for every provider of the resolved mapping the base
\* endpoint is the value of <ID>_BASE_URL when set, else for ollama the value
\* of OLLAMA_BASE_URL when set, else the file's value when present, else the
\* registry default.
C17_EndpointPrecedence ==
    load_outcome = "returned" =>
        \A p \in DOMAIN app_config.providers :
            app_config.providers[p].base_url =
                IF IsSet(BaseUrlVar(p)) THEN environ[BaseUrlVar(p)]
                ELSE IF p = "ollama" /\ IsSet("OLLAMA_BASE_URL")
                     THEN environ["OLLAMA_BASE_URL"]
                ELSE FileThenRegistry(p, "base_url")

\* C17 amended: the same order, where a variable counts only when it is set
\* to a non-empty value.
C17_EndpointPrecedenceNonEmpty ==
    load_outcome = "returned" =>
        \A p \in DOMAIN app_config.providers :
            app_config.providers[p].base_url =
                IF Truthy(Getenv(environ, BaseUrlVar(p)))
                THEN environ[BaseUrlVar(p)]
                ELSE IF p = "ollama" /\ Truthy(Getenv(environ, "OLLAMA_BASE_URL"))
                     THEN environ["OLLAMA_BASE_URL"]
                ELSE FileThenRegistry(p, "base_url")

\* the file and the environment both give the endpoint of azure, and the
\* environment's is the one resolved
C17_Witness ==
    /\ load_outcome = "returned"
    /\ FileGives("azure", "base_url")
    /\ Getenv(environ, "AZURE_BASE_URL") = "https://env-azure.openai.com"
    /\ app_config.providers["azure"].base_url = "https://env-azure.openai.com"

\* C18 as stated: after load_config every registry provider has an entry;
\* a registry provider of the file keeps every field the file gives and takes
\* the others from the registry; providers of the file alone are kept.
C18_FileOverRegistry ==
    load_outcome = "returned" =>
        /\ RegistryIds \subseteq DOMAIN app_config.providers
        /\ DOMAIN FileProviders \subseteq DOMAIN app_config.providers
        /\ \A p \in RegistryIds \cap DOMAIN FileProviders :
              \A f \in ProviderInfoFields :
                  app_config.providers[p][f] = FileThenRegistry(p, f)

\* whether an environment variable decides field f of provider p
EnvDecides(p, f) ==
    \/ /\ f = "api_key"
       /\ Truthy(FileThenRegistry(p, "env_key"))
       /\ Truthy(Getenv(environ, FileThenRegistry(p, "env_key")))
    \/ /\ f = "base_url"
       /\ Truthy(Getenv(environ, BaseUrlVar(p)))

\* C18 amended: after load_config every registry provider has an entry and
\* providers of the file alone are kept; every field of every entry is the
\* file's value when the file gives it and the registry default otherwise,
\* except a credential or base endpoint that an environment variable
\* overrides.
C18_FileOverRegistryUnlessEnv ==
    load_outcome = "returned" =>
        /\ RegistryIds \subseteq DOMAIN app_config.providers
        /\ DOMAIN FileProviders \subseteq DOMAIN app_config.providers
        /\ \A p \in DOMAIN app_config.providers :
              \A f \in ProviderInfoFields :
                  ~EnvDecides(p, f) =>
                      app_config.providers[p][f] = FileThenRegistry(p, f)

\* the file gives the key and endpoint of openai and a provider of its own;
\* openai keeps them and has its name from the registry
C18_Witness ==
    /\ load_outcome = "returned"
    /\ environ = EmptyDict
    /\ app_config.providers["openai"].base_url = "json-openai-url"
    /\ app_config.providers["openai"].api_key = "sk-json-openai"
    /\ app_config.providers["openai"].name = "OpenAI"
    /\ "custom_provider" \in DOMAIN app_config.providers
    /\ "mistral" \in DOMAIN app_config.providers

\* C19: the active provider of the configuration load_config returns is the
\* file's provider value when the file gives one, and the fallback default
\* provider when it gives none.
C19_ActiveProvider ==
    load_outcome = "returned" =>
        app_config.provider =
            IF Truthy(Get(raw_file_config, "provider", None))
            THEN raw_file_config["provider"]
            ELSE DEFAULT_PROVIDER

\* C20: in every configuration load_config returns whose active provider
\* has an entry, the top-level api_key is that entry's api_key as resolved
\* after the environment overrides.
C20_ApiKeyMirrorsActive ==
    (/\ load_outcome = "returned"
     /\ app_config.provider \in DOMAIN app_config.providers) =>
        app_config.api_key = app_config.providers[app_config.provider].api_key

\* azure is active; the file gives its key and the environment overrides it
C20_Witness ==
    /\ load_outcome = "returned"
    /\ app_config.provider = "azure"
    /\ FileGives("azure", "api_key")
    /\ app_config.providers["azure"].api_key = "env-azure-key"
    /\ app_config.api_key = "env-azure-key"


(***************************************************************************)
(* Settings files, save_config, set_api_key and the client factory         *)
(***************************************************************************)
\* the file _get_config_filepath names, as the disk is now
ChosenFile ==
    IF GetConfigFilepath(config_json, config_yaml) = "config.json"
    THEN config_json
    ELSE config_yaml

\* C21: load_config never fails because of what the settings file holds:
\* when the text of the file it reads does not parse, or parses to nothing
\* or to a value that is no mapping, it returns what it returns for a file
\* holding {}.
C21_NeverFailsOnContent ==
    /\ op = "load_config"
    /\ ChosenFile.exists
    /\ ~ChosenFile.parses \/ ChosenFile.value # "dict"
    => /\ load_outcome = "returned"
       /\ app_config = AppConfig(Resolve(EmptyDict, environ))

\* the mapping _bootstrap_default_config_file is to write: the hard
\* defaults and one entry for every provider of the registry
IsDefaultSettings(data) ==
    /\ DOMAIN data = StoredSettings \cup {"providers"}
    /\ data["model"] = DEFAULT_MODEL
    /\ data["provider"] = DEFAULT_PROVIDER
    /\ data["approvalMode"] = DEFAULT_APPROVAL_MODE
    /\ data["instructions"] = DEFAULT_INSTRUCTIONS
    /\ data["default_provider"] = DEFAULT_PROVIDER
    /\ DOMAIN data["providers"] = RegistryIds
    /\ \A p \in RegistryIds :
          data["providers"][p] = ModelDump(DEFAULT_PROVIDERS(environ)[p])

\* C22: a load_config call writes the default settings to config.json when
\* neither config.json nor config.yaml exists, and only then: a file that
\* exists is left as it is by every call, and a call that follows a write
\* finds the file and writes nothing.
C22_BootstrapOnlyWhenMissing ==
    [][op' = "load_config" =>
          LET missing == ~config_json.exists /\ ~config_yaml.exists IN
          /\ config_yaml' = config_yaml
          /\ ~missing => config_json' = config_json
          /\ missing /\ writable =>
                /\ config_json'.exists
                /\ config_json'.parses
                /\ config_json'.value = "dict"
                /\ IsDefaultSettings(config_json'.data)]_vars

\* the bootstrap wrote config.json and load_config returned what it holds
C22_Witness ==
    /\ op = "load_config"
    /\ load_outcome = "returned"
    /\ ~config_yaml.exists
    /\ config_json.exists
    /\ IsDefaultSettings(config_json.data)
    /\ app_config.provider = DEFAULT_PROVIDER

\* the file the rule of _get_config_filepath names for a write: the JSON
\* file if it exists, otherwise the YAML file if it exists, otherwise the
\* JSON file
FileByRule ==
    IF config_json.exists THEN "config.json"
    ELSE IF config_yaml.exists THEN "config.yaml"
    ELSE "config.json"

\* C23: load_config reads the JSON file if it exists and otherwise the YAML
\* file; save_config writes the file the same rule names, the JSON file
\* when neither exists, and leaves the file of the other format as it is.
C23_OneFileRule ==
    [][/\ op' = "save_config" =>
            /\ FileByRule = "config.json" =>
                  /\ config_yaml' = config_yaml
                  /\ writable =>
                        /\ config_json'.exists
                        /\ config_json'.data["model"] = config.model
            /\ FileByRule = "config.yaml" =>
                  /\ config_json' = config_json
                  /\ writable =>
                        /\ config_yaml'.exists
                        /\ config_yaml'.data["model"] = config.model
       /\ op' = "load_config" /\ load_outcome' = "returned" =>
            /\ config_json.exists => raw_file_config' = config_json.data
            /\ ~config_json.exists /\ config_yaml.exists =>
                  raw_file_config' = config_yaml.data]_vars

\* save_config wrote the YAML file, the only one there is, after a
\* set_api_key call
C23_Witness ==
    /\ op = "save_config"
    /\ call_outcome = "returned"
    /\ ~config_json.exists
    /\ config_yaml.exists
    /\ "anthropic" \in DOMAIN config_yaml.data["providers"]
    /\ Get(config_yaml.data["providers"]["anthropic"], "api_key", None)
          = "sk-new-key"

\* whether a settings mapping holds the persisted subset of cfg: the
\* settings that are not None, no top-level api_key, and for every provider
\* entry its fields that are not None, the api_key only when it is not empty
IsPersistedSubset(data, cfg) ==
    /\ DOMAIN data \subseteq StoredSettings \cup {"providers"}
    /\ "api_key" \notin DOMAIN data
    /\ \A k \in StoredSettings :
          IF cfg[k] = None THEN k \notin DOMAIN data
          ELSE k \in DOMAIN data /\ data[k] = cfg[k]
    /\ DOMAIN data["providers"] = DOMAIN cfg.providers
    /\ \A p \in DOMAIN cfg.providers :
          LET written == data["providers"][p]
              info == cfg.providers[p]
          IN  /\ "api_key" \in DOMAIN written <=> Truthy(info.api_key)
              /\ \A f \in ProviderInfoFields \ {"api_key"} :
                    f \in DOMAIN written <=> info[f] # None
              /\ \A f \in DOMAIN written : written[f] = info[f]

\* C24: what save_config writes is the persisted subset of the configuration
\* it is given: never the top-level api_key, and the api_key of a provider
\* entry exactly when the entry has a non-empty one, wherever it came from.
C24_SavesPersistedSubset ==
    [][op' = "save_config" /\ writable =>
          IsPersistedSubset(IF FileByRule = "config.json"
                            THEN config_json'.data
                            ELSE config_yaml'.data,
                            config)]_vars

\* a save of a configuration with a top-level api_key, whose entries have a
\* key of the environment, one of set_api_key, one of the file and none
C24_Witness ==
    /\ op = "save_config"
    /\ call_outcome = "returned"
    /\ config.api_key = "sk-env-openai"
    /\ config_json.exists
    /\ IsPersistedSubset(config_json.data, config)
    /\ "custom_provider" \in DOMAIN config_json.data["providers"]
    /\ LET written == config_json.data["providers"] IN
       /\ Get(written["openai"], "api_key", None) = "sk-env-openai"
       /\ Get(written["anthropic"], "api_key", None) = "sk-new-key"
       /\ Get(written["custom_provider"], "api_key", None) = "customkey"
       /\ "api_key" \notin DOMAIN written["ollama"]

\* C25: when the write of save_config fails, save_config reports the
\* failure and returns without raising, and the configuration it was given
\* is as it was.
C25_WriteFailureReported ==
    [][op' = "save_config" /\ ~writable =>
          /\ call_outcome' = "reported"
          /\ config' = config
          /\ app_config' = app_config]_vars

\* a save of a loaded and changed configuration failed to write
C25_Witness ==
    /\ op = "save_config"
    /\ ~writable
    /\ call_outcome = "reported"
    /\ config.providers["openai"].api_key = "sk-new-key"
    /\ config_json = File(JsonContent)

\* C26: with no settings file and CODEX_MODEL, CODEX_PROVIDER and
\* CODEX_APPROVAL_MODE set, load_config returns a configuration whose model,
\* provider and approvalMode are the values of those variables and whose
\* api_key is the api_key of the provider CODEX_PROVIDER names.
C26_CodexVariablesHonoured ==
    [][/\ op' = "load_config"
       /\ ~config_json.exists
       /\ ~config_yaml.exists
       /\ writable
       /\ IsSet("CODEX_MODEL")
       /\ IsSet("CODEX_PROVIDER")
       /\ IsSet("CODEX_APPROVAL_MODE")
       => /\ load_outcome' = "returned"
          /\ app_config'.model = environ["CODEX_MODEL"]
          /\ app_config'.provider = environ["CODEX_PROVIDER"]
          /\ app_config'.approvalMode = environ["CODEX_APPROVAL_MODE"]
          /\ app_config'.api_key
                = app_config'.providers[environ["CODEX_PROVIDER"]].api_key
      ]_vars

\* C27: set_api_key(k, p, config) sets the api_key of the entry of p to k
\* when p has an entry, and then sets the top-level api_key to k if p is the
\* active provider and leaves it as it was if not; when p has no entry it
\* adds one named p with api_key k; every other entry is as it was.
C27_SetApiKeyFrame ==
    [][op' = "set_api_key" =>
          LET k == call_args'[1]
              p == call_args'[2]
          IN  /\ DOMAIN config'.providers = (DOMAIN config.providers) \cup {p}
              /\ \A q \in (DOMAIN config.providers) \ {p} :
                    config'.providers[q] = config.providers[q]
              /\ config'.providers[p].api_key = k
              /\ p \in DOMAIN config.providers =>
                    /\ config.provider = p => config'.api_key = k
                    /\ config.provider # p => config'.api_key = config.api_key
              /\ p \notin DOMAIN config.providers =>
                    config'.providers[p].name = p]_vars

\* the key of anthropic was set while openai is active: the top-level key
\* is not the new one; an earlier call added the entry of custom_provider
C27_Witness ==
    /\ op = "set_api_key"
    /\ call_args = <<"sk-new-key", "anthropic">>
    /\ config.provider = "openai"
    /\ config.providers["anthropic"].api_key = "sk-new-key"
    /\ config.api_key # "sk-new-key"
    /\ "custom_provider" \in DOMAIN config.providers
    /\ config.providers["custom_provider"].name = "custom_provider"
    /\ config.providers["custom_provider"].api_key = "sk-new-key"

\* the entry of the active provider, when there is one
ActiveEntry == config.providers[config.provider]

\* the four conditions under which no client can be built: no active
\* provider; no entry for it; no credential and the provider is not ollama;
\* azure without a base endpoint
NoClientConditions ==
    \/ ~Truthy(config.provider)
    \/ config.provider \notin DOMAIN config.providers
    \/ /\ ~Truthy(ActiveEntry.api_key)
       /\ config.provider # "ollama"
    \/ /\ config.provider = "azure"
       /\ ~Truthy(ActiveEntry.base_url)

\* C28: create_openai_client raises a configuration error exactly when no
\* active provider is set, or the mapping has no entry for it, or the entry
\* has no credential and the provider is not ollama, or the provider is
\* azure and no base endpoint is resolved; otherwise it returns a client.
C28_FailsExactlyWhen ==
    op = "create_openai_client" =>
        /\ call_outcome = "raised" <=> NoClientConditions
        /\ call_outcome = "raised" =>
              oai_client.cls = None /\ oai_client.error # None
        /\ call_outcome # "raised" =>
              /\ call_outcome = "returned"
              /\ oai_client.cls \in { "OpenAI", "AzureOpenAI" }
              /\ oai_client.error = None

\* azure is active with a credential and no endpoint: the call raised
C28_Witness ==
    /\ op = "create_openai_client"
    /\ call_outcome = "raised"
    /\ config.provider = "azure"
    /\ Truthy(ActiveEntry.api_key)
    /\ ~Truthy(ActiveEntry.base_url)

\* C29: a client that create_openai_client returns is, for azure, the
\* AzureOpenAI client with api_version "2023-07-01-preview" and the base
\* endpoint as azure_endpoint; for any other active provider the OpenAI
\* client, with base_url given exactly when the entry has a base endpoint;
\* always with the api_key of the active entry and a timeout of 30 seconds.
C29_ClientArguments ==
    op = "create_openai_client" /\ call_outcome = "returned" =>
        LET kwargs == oai_client.kwargs IN
        /\ kwargs["api_key"] = ActiveEntry.api_key
        /\ kwargs["timeout"] = 30
        /\ config.provider = "azure" =>
              /\ oai_client.cls = "AzureOpenAI"
              /\ kwargs["api_version"] = "2023-07-01-preview"
              /\ kwargs["azure_endpoint"] = ActiveEntry.base_url
              /\ DOMAIN kwargs
                    = { "api_key", "timeout", "api_version", "azure_endpoint" }
        /\ config.provider # "azure" =>
              /\ oai_client.cls = "OpenAI"
              /\ IF Truthy(ActiveEntry.base_url)
                 THEN /\ DOMAIN kwargs = { "api_key", "timeout", "base_url" }
                      /\ kwargs["base_url"] = ActiveEntry.base_url
                 ELSE DOMAIN kwargs = { "api_key", "timeout" }

\* a client for a custom provider of the settings file, with its endpoint
C29_Witness ==
    /\ op = "create_openai_client"
    /\ call_outcome = "returned"
    /\ config.provider = "custom_provider"
    /\ oai_client.cls = "OpenAI"
    /\ oai_client.kwargs["api_key"] = "customkey"
    /\ oai_client.kwargs["base_url"] = "http://custom.api.example.com:8080/v1"

\* C30: a configuration error is raised by the construction of the agent
\* loop, before any request: when the client cannot be built the
\* construction raises, no instance is there to run, nothing has been
\* requested and no transcript or output holds the error.
C30_ConfigErrorAtConstruction ==
    /\ op = "__init__" =>
          /\ call_outcome = "raised" <=> NoClientConditions
          /\ call_outcome = "raised" => oai_client.error # None
    /\ oai_client.cls = None =>
          /\ pc = "idle"
          /\ runCalls = 0
          /\ requests = 0
          /\ transcript = <<>>
          /\ events = <<>>

\* azure without endpoint: the construction raised the error of the factory
C30_Witness ==
    /\ op = "__init__"
    /\ call_outcome = "raised"
    /\ config.provider = "azure"
    /\ oai_client.error
          = "Base URL (Azure OpenAI endpoint) is required for Azure provider."
    /\ requests = 0

(***************************************************************************)
(* The cancellation flag, the stream reference and the turn                *)
(***************************************************************************)
\* a step that is a call of run()
RunCalled == runCalls' # runCalls

\* C31 as stated: once the cancellation flag is set no call resets it,
\* every later run call yields nothing, and the transcript never grows
\* again.
C31_StickyFlag ==
    [][canceled =>
          /\ canceled'
          /\ RunCalled => Yielded(events') = <<>>
          /\ Len(transcript') <= Len(transcript)]_vars

\* C31, amended: once the cancellation flag is set no call of run,
\* clear_history or cancel resets it; every run call made from then on
\* yields nothing, requests nothing and leaves the transcript as it is; the
\* transcript grows at most by the assistant entry of the turn that was in
\* flight when the flag was set, at the end of that turn.
C31_StickyFlagLaterRuns ==
    [][canceled =>
          /\ canceled'
          /\ RunCalled =>
                /\ Yielded(events') = <<>>
                /\ transcript' = transcript
                /\ requests' = requests
                /\ pc' = "idle"
          /\ Len(transcript') > Len(transcript) =>
                /\ TurnEnds
                /\ Len(transcript') = Len(transcript) + 1
                /\ Last(transcript').role = "assistant"]_vars

\* a run call on an instance cancelled during its first turn: the turn
\* left its user and assistant entries, the later call added nothing
C31_Witness ==
    /\ canceled
    /\ outcome = "noop"
    /\ runCalls = 2
    /\ ~cleared
    /\ Len(transcript) = 2
    /\ transcript[2].role = "assistant"
    /\ events = <<>>

\* C32: a chunk that arrives while the cancellation flag is set is dropped:
\* nothing of it is accumulated, passed to the item sink or yielded, no
\* chunk is read after it and the turn ends cancelled with what was
\* accumulated before.  The flag is looked at on entry of run and when a
\* chunk arrives, nowhere else: a turn ends cancelled only at the arrival
\* of a chunk.
C32_ChunkDroppedAfterCancel ==
    [][/\ pc = "streaming" /\ canceled =>
            /\ chunksRead' = chunksRead
            /\ ReceivedChunks(events') = ReceivedChunks(events)
       /\ TurnEnds /\ outcome' = "cancelled" =>
            /\ pc = "streaming"
            /\ canceled
            /\ Yielded(events') = Yielded(events)
            /\ SinkItems(events') = SinkItems(events)
            /\ transcript'
                  = RecordAssistant(transcript, full_assistant_response)
       /\ pc \in { "requesting", "yield_content", "yield_error" } =>
            outcome' # "cancelled"]_vars

\* a turn that ended cancelled after one chunk was read and yielded
C32_Witness ==
    /\ canceled
    /\ pc = "idle"
    /\ outcome = "cancelled"
    /\ Len(ReceivedChunks(events)) = 1
    /\ Len(Yielded(events)) = 1
    /\ Len(transcript) = 2

\* C33: the stream reference is set only from the moment the request
\* returned a stream to the end of that turn: it is None while no run is in
\* flight (before the first run, after every turn, after a run that did
\* nothing) and while the request is awaited, and it is the stream while
\* the turn is streaming.
C33_StreamReferenceScope ==
    /\ pc \in { "idle", "requesting" } => current_stream = "None"
    /\ pc \in { "streaming", "yield_content" } => current_stream = "stream"

\* a run that did nothing, after a turn that had a stream and read from it
C33_Witness ==
    /\ outcome = "noop"
    /\ turnsEnded = 1
    /\ chunksRead >= 1
    /\ pc = "idle"
    /\ current_stream = "None"

(***************************************************************************)
(* The life of a turn                                                      *)
(***************************************************************************)
\* the three ways a turn ends
TurnOutcomes == { "completed", "cancelled", "failed" }

\* the loading sink, when there is one, was last told that loading ended
LoadingReportedEnded ==
    on_loading =>
        /\ LoadingCalls(events) # <<>>
        /\ Last(LoadingCalls(events)) = <<"False">>

\* what holds of every step of a turn whichever way the request went: the
\* turn starts by the request, streams only after it, fails only through
\* the error string, ends once, with one of the three outcomes and loading
\* reported ended, and keeps its outcome until run is called again
TurnSteps ==
    /\ pc = "idle" /\ pc' # "idle" =>
           pc' = "requesting" /\ outcome' = "running"
    /\ pc = "streaming" /\ pc' # "streaming" =>
           /\ pc' \in { "yield_content", "yield_error", "idle" }
           /\ pc' = "idle" => outcome' \in { "completed", "cancelled" }
    /\ pc = "yield_content" /\ pc' # "yield_content" => pc' = "streaming"
    /\ pc = "yield_error" /\ pc' # "yield_error" =>
           pc' = "idle" /\ outcome' = "failed"
    /\ TurnEnds =>
           /\ outcome = "running"
           /\ outcome' \in TurnOutcomes
           /\ turnsEnded' = turnsEnded + 1
           /\ LoadingReportedEnded'
    /\ ~TurnEnds => turnsEnded' = turnsEnded
    /\ outcome \in TurnOutcomes /\ outcome' # outcome => RunCalled

\* a started turn comes back to idle, ended, with loading reported ended
TurnReturns ==
    (pc # "idle") ~>
        (pc = "idle" /\ outcome \in TurnOutcomes /\ LoadingReportedEnded)

\* C34 as stated: every turn goes through Requesting and then Streaming
\* before it ends in one of Completed, Cancelled and Failed, so the request
\* of every turn that ends has returned a stream; every started turn comes
\* back to idle with loading reported ended; no turn has two outcomes.
C34_TurnLifecycle ==
    /\ [][/\ TurnSteps
          /\ pc = "requesting" /\ pc' # "requesting" => pc' = "streaming"
          /\ TurnEnds => current_stream = "stream"]_vars
    /\ TurnReturns

\* C34, amended: a turn goes from Requesting to Streaming when the request
\* returns a stream and straight to Failed when the request raises; it
\* ends in exactly one of Completed, Cancelled and Failed, the first two
\* only out of Streaming; with a consumer that keeps iterating and a
\* provider that answers and lets the stream stop, every started turn comes
\* back to idle with loading reported ended.
C34_TurnLifecycleRequestMayFail ==
    /\ [][/\ TurnSteps
          /\ pc = "requesting" /\ pc' # "requesting" =>
                 pc' \in { "streaming", "yield_error" }
          /\ TurnEnds /\ current_stream # "stream" => outcome' = "failed"]_vars
    /\ TurnReturns

\* after a turn that ended, the request of the next turn has raised: the
\* turn is failed and has had no stream
C34_Witness ==
    /\ pc = "yield_error"
    /\ current_stream = "None"
    /\ outcome = "running"
    /\ turnsEnded = 1
    /\ requests = 2
    /\ on_loading
    /\ LoadingCalls(events) = << <<"True">> >>

\* C35: the system message is made for each request and never stored: every
\* entry of the transcript has role user or assistant, and the list handed
\* to the provider holds one system message, its first element, whose
\* content is the configured instructions, or the fixed fallback text when
\* the instructions are empty or absent.
C35_SystemMessageSynthesized ==
    /\ \A i \in DOMAIN transcript : transcript[i].role \in { "user", "assistant" }
    /\ messages_payload # <<>> =>
           /\ messages_payload[1].role = "system"
           /\ messages_payload[1].content =
                  (IF instructions = <<>>
                   THEN <<"You", "are", "a", "helpful", "assistant.">>
                   ELSE instructions)
           /\ \A i \in 2..Len(messages_payload) :
                  messages_payload[i].role \in { "user", "assistant" }

\* the request of a second turn, made without instructions: the fallback
\* text, then the three entries of the transcript
C35_Witness ==
    /\ pc = "requesting"
    /\ instructions = <<>>
    /\ Len(transcript) = 3
    /\ Len(messages_payload) = 4
    /\ messages_payload[1].content = FallbackInstructions
    /\ Roles(transcript) = <<"user", "assistant", "user">>

\* C36: clear_history() called while a run is in flight never leaves the
\* assistant text of that turn in the transcript without its user entry: the
\* transcript is empty or starts with a user entry, and every assistant
\* entry comes right after a user entry.
C36_NoOrphanAssistantEntry ==
    /\ transcript # <<>> => transcript[1].role = "user"
    /\ \A i \in 2..Len(transcript) :
           transcript[i].role = "assistant" => transcript[i - 1].role = "user"

(***************************************************************************)
(* The top-level key, the client factory and the settings file             *)
(***************************************************************************)
\* C37: after any sequence of load_config, set_api_key and the --provider
\* override, whenever the active provider has an entry in the provider
\* mapping, the top-level api_key is the api_key of that entry.
C37_TopLevelKeyInSync ==
    (DOMAIN config # {} /\ config.provider \in DOMAIN config.providers) =>
        config.api_key = config.providers[config.provider].api_key

\* values a top-level api_key may hold
TopLevelKeys == { None, "", "sk-other-key" }

\* a configuration that has the active provider of cfg and that provider's
\* entry, if any, and nothing else of cfg: no other entry, no setting, and
\* api_key as its top-level key
SameActiveProvider(cfg, api_key) ==
    [model |-> None,
     provider |-> cfg.provider,
     approvalMode |-> None,
     instructions |-> None,
     providers |-> [p \in DOMAIN cfg.providers \cap { cfg.provider } |->
                       cfg.providers[p]],
     default_provider |-> None,
     api_key |-> api_key]

\* C38: what create_openai_client returns or raises is decided by the
\* active provider identifier and that provider's entry alone: called on
\* the configuration held, it gives what it gives for every configuration
\* with the same active provider and entry, whatever the top-level api_key,
\* the other entries and the other settings.
C38_ClientFromActiveEntryOnly ==
    op = "create_openai_client" =>
        \A api_key \in TopLevelKeys :
            /\ CreateOpenaiClient([config EXCEPT !.api_key = api_key]) = oai_client
            /\ CreateOpenaiClient(SameActiveProvider(config, api_key)) = oai_client

\* a client was made with the key of the active entry while the top-level
\* key is None
C38_Witness ==
    /\ op = "create_openai_client"
    /\ config.provider \in DOMAIN config.providers
    /\ config.providers[config.provider].api_key = "sk-new-key"
    /\ config.api_key = None
    /\ oai_client.cls = "OpenAI"
    /\ oai_client.kwargs.api_key = "sk-new-key"

\* a load_config call that comes right after a save_config call that wrote
\* the file, in an environment without variables
LoadAfterSave ==
    /\ op = "save_config"
    /\ call_outcome = "returned"
    /\ environ = EmptyDict
    /\ op' = "load_config"

\* C39: load_config called after save_config(c), in an environment without
\* overrides, returns a configuration equal to c in model, active provider,
\* approval mode, instructions, default provider, every provider entry and
\* the top-level api_key, c being what load_config returned, possibly
\* changed by set_api_key.
C39_SaveLoadRoundTrip ==
    [][LoadAfterSave =>
          /\ load_outcome' = "returned"
          /\ config' = config]_vars
====
